---- MODULE Spec2Model ----
(***************************************************************************)
(* LuxLedger: the posting engine and the tenant-scoped reads of            *)
(* DrizzleLedgerRepository over a PostgreSQL database run at READ          *)
(* COMMITTED.                                                              *)
(*                                                                         *)
(* One action is one SQL statement of a handler (the handler suspends at   *)
(* every await).  Rows written by a database transaction that has not      *)
(* committed are kept apart from the committed tables: the uncommitted     *)
(* transaction and entry rows in work[p], the uncommitted account version  *)
(* in dirty[a] under the row lock rowLock[a].                              *)
(***************************************************************************)
EXTENDS Integers, Sequences, FiniteSets, TLC

\* ------------------------------------------------------------------ bounds

\* Handlers that may run concurrently.
NumProcs == 2
\* postTransaction calls started in one behaviour.
MaxCalls == 2
\* Largest amountMinor of an entry of an input.
MaxAmount == 2
\* The bigint column range, scaled down: balance_minor holds
\* -BigintMax-1 .. BigintMax (PostgreSQL: -2^63 .. 2^63-1).
BigintMax == 3
\* Microseconds in a millisecond, scaled down; the clock counts microseconds.
MicrosPerMilli == 2
\* Most ApiKeyService calls that change or try to change the key store in a run.
MaxKeyCalls == 3
\* Bits of the mantissa of a JavaScript number, scaled down (IEEE 754: 53).
MantissaBits == 2
\* Most postings of an input of createTransaction.
MaxPostings == 3

Procs == 1..NumProcs
NoProc == 0
NoId == 0

\* ------------------------------------------------------------ fixed data

Tenants == {"tA", "tB"}
Currencies == {"USD", "EUR"}
References == {"r1", "r2"}
Directions == {"DEBIT", "CREDIT"}

\* Account ids of the database; UnknownAccountId names no row.
AccountIds == 1..6
UnknownAccountId == Cardinality(AccountIds) + 1
\* Ledger ids of the database; UnknownLedgerId names no row.
LedgerIds == 1..3
UnknownLedgerId == Cardinality(LedgerIds) + 1

VARIABLES
  ledgers,       \* committed rows of table ledgers
  accounts,      \* committed rows of table accounts, by id
  transactions,  \* committed rows of table transactions
  entries,       \* committed rows of table entries
  rowLock,       \* rowLock[a]: the handler whose open transaction holds a's row lock
  dirty,         \* dirty[a]: the uncommitted version of account a while locked
  pc,            \* pc[p]: the statement handler p executes next
  input,         \* input[p]: the PostTransactionInput of p's call
  work,          \* work[p]: p's open database transaction
  result,        \* result[p]: what p's call returned or threw
  snap,          \* snap[p]: the committed tables when p's call started
  nextId,        \* ids handed out so far (gen_random_uuid never repeats)
  clock,         \* now()
  lastRead,      \* the read the last step answered, if that step was a read
  tenants,       \* ids of the rows of table tenants
  apiKeys,       \* rows of table api_keys
  lastKey,       \* the ApiKeyService call the last step answered, if it was one
  lastHttp,      \* the HTTP request the last step answered, if it was one
  pool,          \* the connections of the pool: transaction and settings of each
  cancelled      \* the postings whose request was cancelled in flight, by start time

vars == <<ledgers, accounts, transactions, entries, rowLock, dirty, pc, input,
          work, result, snap, nextId, clock, lastRead, tenants, apiKeys, lastKey,
          lastHttp, pool, cancelled>>

\* The state of the key store and the answer of its last call.
keyVars == <<tenants, apiKeys, lastKey, lastHttp, pool, cancelled>>

\* --------------------------------------------------------------- helpers

RECURSIVE SumOf(_, _)
\* Sum of amountMinor over the entries of es with direction dir.
SumOf(es, dir) ==
  IF es = << >> THEN 0
  ELSE (IF Head(es).direction = dir THEN Head(es).amountMinor ELSE 0)
       + SumOf(Tail(es), dir)

RECURSIVE SumSet(_, _)
\* Sum of f[x] over the finite set S.
SumSet(S, f) ==
  IF S = {} THEN 0
  ELSE LET x == CHOOSE y \in S : TRUE IN f[x] + SumSet(S \ {x}, f)

\* ---------------------------------------------------------------- errors

\* core/errors: the domain error kinds postTransaction can raise.
DomainError(kind, message) == [domain |-> TRUE, kind |-> kind, message |-> message, code |-> ""]
\* An error raised by the database driver, with its SQLSTATE.
DatabaseError(code) == [domain |-> FALSE, kind |-> "", message |-> "", code |-> code]

ForeignKeyViolation == "23503"
NumericValueOutOfRange == "22003"

\* A constraint class that also holds numeric_value_out_of_range.
codesWithNumericRange ==
  {"22001", "22003", "22007", "22P02", "23502", "23503", "23505", "23514"}

CONSTRAINT_VIOLATION_CODES ==
  {"22001", "22007", "22P02", "23502", "23503", "23505", "23514"}

\* extractDatabaseCode: the code of the error if it has one, else of its
\* cause, and so on; "" stands for null.
RECURSIVE extractDatabaseCode(_)
extractDatabaseCode(error) ==
  IF error.code # "" THEN error.code
  ELSE IF "cause" \in DOMAIN error THEN extractDatabaseCode(error.cause)
  ELSE ""

\* A handler that classifies domain errors by code like every other error.
wrapDomainErrors(error, operation) ==
  IF extractDatabaseCode(error) \in CONSTRAINT_VIOLATION_CODES
    THEN [kind |-> "INVARIANT_VIOLATION",
          message |-> "Unable to " \o operation \o ": data constraints violated"]
    ELSE [kind |-> "REPOSITORY_ERROR", message |-> "Unable to " \o operation]

\* The error a repository method throws for an error caught in its try block.
handleDatabaseError(error, operation) ==
  IF error.domain THEN [kind |-> error.kind, message |-> error.message]
  ELSE IF extractDatabaseCode(error) \in CONSTRAINT_VIOLATION_CODES
    THEN [kind |-> "INVARIANT_VIOLATION",
          message |-> "Unable to " \o operation \o ": data constraints violated"]
    ELSE [kind |-> "REPOSITORY_ERROR", message |-> "Unable to " \o operation]

\* ------------------------------------------------------- pre-validation

\* A pre-validation that accepts every entry list.
assertNothing(es) == "ok"

\* A pre-validation that counts the entries and compares no sums.
assertAtLeastTwoEntries(es) ==
  IF Len(es) < 2 THEN "transaction must have at least 2 entries" ELSE "ok"

\* assertBalancedEntries: "ok", or the message of the error it throws.
assertBalancedEntries(es) ==
  IF Len(es) < 2 THEN "transaction must have at least 2 entries"
  ELSE IF SumOf(es, "DEBIT") # SumOf(es, "CREDIT")
    THEN "total debits must equal total credits"
    ELSE "ok"

\* ---------------------------------------------------------------- tables

\* A WHERE clause that tests the account id alone.
accountExists(tbl, accountId, in) == accountId \in DOMAIN tbl

\* A WHERE clause that tests the account id and the tenant, and neither the
\* ledger nor the currency.
accountOfTenant(tbl, accountId, in) ==
  /\ accountId \in DOMAIN tbl
  /\ tbl[accountId].tenantId = in.tenantId

\* The WHERE clause of the balance UPDATE: the account row with this id that
\* has the posting's tenant, ledger and currency (row-level security adds the
\* same tenant test).
accountMatches(tbl, accountId, in) ==
  /\ accountId \in DOMAIN tbl
  /\ tbl[accountId].tenantId = in.tenantId
  /\ tbl[accountId].ledgerId = in.ledgerId
  /\ tbl[accountId].currency = in.currency

\* A unique index on reference alone: the rows of every tenant with the reference.
findByReferenceOfAnyTenant(tbl, tenantId, reference) ==
  {t \in tbl : t.reference = reference}

\* The committed transactions row with this idempotency key, if any.
findByReference(tbl, tenantId, reference) ==
  {t \in tbl : t.tenantId = tenantId /\ t.reference = reference}

\* The uncommitted transactions rows of the other open database transactions
\* that hold this idempotency key in the unique index.
pendingByReference(p, tenantId, reference) ==
  {q \in Procs \ {p} :
     /\ work[q].txRow # <<>>
     /\ work[q].txRow[1].tenantId = tenantId
     /\ work[q].txRow[1].reference = reference}

\* The rows inserted into entries for the input's entries.
entryRows(in, transactionId, now) ==
  {[id |-> 10 * transactionId + i,
    tenantId |-> in.tenantId,
    transactionId |-> transactionId,
    accountId |-> in.entries[i].accountId,
    direction |-> in.entries[i].direction,
    amountMinor |-> in.entries[i].amountMinor,
    currency |-> in.entries[i].currency,
    createdAt |-> now] : i \in 1..Len(in.entries)}

RECURSIVE insertSorted(_, _)
\* e put into the sorted sequence s after every element whose accountId is
\* not greater (Array.prototype.sort is stable).
insertSorted(s, e) ==
  IF s = << >> THEN <<e>>
  ELSE IF Head(s).accountId <= e.accountId
    THEN <<Head(s)>> \o insertSorted(Tail(s), e)
    ELSE <<e>> \o s

RECURSIVE sortByAccountId(_)
sortByAccountId(es) ==
  IF es = << >> THEN << >>
  ELSE insertSorted(sortByAccountId(SubSeq(es, 1, Len(es) - 1)), es[Len(es)])

\* The entries in the order of the input.
entriesInInputOrder(es) == es

\* The order in which postTransaction updates the accounts of its entries.
entriesForBalanceUpdate(es) == sortByAccountId(es)

\* The amount of an entry without the sign of its direction.
unsignedDelta(entry) == entry.amountMinor

\* The signed contribution of an entry to its account's balance.
delta(entry) ==
  IF entry.direction = "DEBIT" THEN -entry.amountMinor ELSE entry.amountMinor

\* The balance as handler p read it when its call started, unless p wrote the
\* row itself: what a read-then-write in application code would add to.
staleBalance(p, a) ==
  IF rowLock[a] = p THEN dirty[a].balanceMinor ELSE snap[p].accounts[a].balanceMinor

\* The value of balance_minor the UPDATE of handler p adds its delta to: the row
\* version p itself wrote in this transaction, else the last committed one.
currentBalance(p, a) ==
  IF rowLock[a] = p THEN dirty[a].balanceMinor ELSE accounts[a].balanceMinor

inBigintRange(n) == -BigintMax - 1 <= n /\ n <= BigintMax

\* ----------------------------------------------------------------- state

NoWork == [txRow |-> << >>, entryRows |-> {}, next |-> 0, now |-> 0]
NoInput == [tenantId |-> "", ledgerId |-> NoId, reference |-> "", currency |-> "",
            entries |-> << >>]
NoResult == [kind |-> "none", message |-> "", created |-> FALSE, transactionId |-> NoId,
             applied |-> 0]
NoSnap == [ledgers |-> {}, transactions |-> {}, entries |-> {}, accounts |-> << >>]
NoRead == [op |-> "none", query |-> << >>, outcome |-> << >>]

\* The database of the model: tenant tA owns ledgers 1 and 2, tenant tB ledger
\* 3; accounts 1 and 2 are USD accounts of ledger 1, account 3 is its EUR
\* account, account 4 is a USD account of ledger 2, accounts 5 and 6 are tB's.
\* Accounts are created with the column default balance 0.
\* No ApiKeyService call answered.
NoKeyCall == [op |-> "none", actor |-> << >>, input |-> << >>, outcome |-> << >>]

\* The connections of the pool.
Connections == {1, 2}

\* A connection as the pool opens it: no transaction, app.tenant_id not set.
IdleConnection ==
  [op |-> << >>, statements |-> 0, settings |-> [session |-> << >>, local |-> << >>],
   observed |-> << >>]

\* No HTTP request answered.
NoHttp == [request |-> << >>, handler |-> "none", authenticated |-> FALSE,
           tenantId |-> << >>, status |-> 0]

InitLedgers ==
  {[id |-> 1, tenantId |-> "tA", createdAt |-> 0, updatedAt |-> 0],
   [id |-> 2, tenantId |-> "tA", createdAt |-> 0, updatedAt |-> 0],
   [id |-> 3, tenantId |-> "tB", createdAt |-> 0, updatedAt |-> 0]}

account(tenantId, ledgerId, currency, createdAt) ==
  [tenantId |-> tenantId, ledgerId |-> ledgerId, currency |-> currency,
   balanceMinor |-> 0, createdAt |-> createdAt, updatedAt |-> createdAt]

\* Account 1 was created after the other accounts of its ledger.
InitAccounts ==
  <<account("tA", 1, "USD", 1), account("tA", 1, "USD", 0), account("tA", 1, "EUR", 0),
    account("tA", 2, "USD", 0), account("tB", 3, "USD", 0), account("tB", 3, "USD", 0)>>

\* The tables of the ledger, no call in progress, an empty answer of every kind.
InitTables ==
  /\ ledgers = InitLedgers
  /\ accounts = InitAccounts
  /\ transactions = {}
  /\ entries = {}
  /\ rowLock = [a \in AccountIds |-> NoProc]
  /\ dirty = [a \in AccountIds |-> [balanceMinor |-> 0, updatedAt |-> 0]]
  /\ pc = [p \in Procs |-> "idle"]
  /\ input = [p \in Procs |-> NoInput]
  /\ work = [p \in Procs |-> NoWork]
  /\ result = [p \in Procs |-> NoResult]
  /\ snap = [p \in Procs |-> NoSnap]
  /\ nextId = 0
  /\ clock = 0
  /\ lastRead = NoRead
  /\ tenants = Tenants
  /\ lastKey = NoKeyCall
  /\ lastHttp = NoHttp
  /\ pool = [c \in Connections |-> IdleConnection]
  /\ cancelled = {}

Init ==
  /\ InitTables
  /\ apiKeys = {}

\* ------------------------------------------------- database transactions

\* The committed tables as a reader sees them.
committed ==
  [ledgers |-> ledgers, transactions |-> transactions, entries |-> entries,
   accounts |-> accounts]

\* Row locks after handler p's database transaction ended.
releaseLocks(p) == [a \in AccountIds |-> IF rowLock[a] = p THEN NoProc ELSE rowLock[a]]

\* A commit that stamps the rows p wrote as created anew.
accountsRecreatedOnCommit(p) ==
  [a \in AccountIds |->
     IF rowLock[a] = p
       THEN [accounts[a] EXCEPT !.balanceMinor = dirty[a].balanceMinor,
                                !.updatedAt = dirty[a].updatedAt,
                                !.createdAt = dirty[a].updatedAt]
       ELSE accounts[a]]

\* The committed accounts after p's database transaction committed: the versions
\* p wrote replace the rows it locked.
accountsAfterCommit(p) ==
  [a \in AccountIds |->
     IF rowLock[a] = p
       THEN [accounts[a] EXCEPT !.balanceMinor = dirty[a].balanceMinor,
                                !.updatedAt = dirty[a].updatedAt]
       ELSE accounts[a]]

\* A rollback that keeps the versions p wrote.
accountsKeptOnRollback(p) == accountsAfterCommit(p)

\* The committed accounts after p's database transaction rolled back: the
\* versions p wrote are discarded.
accountsAfterRollback(p) == accounts

\* A rollback that keeps the transaction row p inserted.
transactionsKeptOnRollback(p) == transactions \cup {work[p].txRow[i] : i \in DOMAIN work[p].txRow}

\* The committed transactions after p's database transaction rolled back: the
\* row p inserted is discarded with the rest of its work.
transactionsAfterRollback(p) == transactions

\* Uncommitted versions once p's transaction ended with the accounts table tbl.
cleanDirty(p, tbl) ==
  [a \in AccountIds |->
     IF rowLock[a] = p
       THEN [balanceMinor |-> tbl[a].balanceMinor, updatedAt |-> tbl[a].updatedAt]
       ELSE dirty[a]]

thrown(e, applied) ==
  [kind |-> e.kind, message |-> e.message, created |-> FALSE, transactionId |-> NoId,
   applied |-> applied]

returned(transactionId, created) ==
  [kind |-> "ok", message |-> "", created |-> created, transactionId |-> transactionId,
   applied |-> 0]

\* An error thrown inside db.transaction: the database transaction rolls back and
\* the catch block of postTransaction maps the error.
Throw(p, error) ==
  /\ accounts' = accountsAfterRollback(p)
  /\ transactions' = transactionsAfterRollback(p)
  /\ dirty' = cleanDirty(p, accounts')
  /\ rowLock' = releaseLocks(p)
  /\ work' = [work EXCEPT ![p] = NoWork]
  /\ result' = [result EXCEPT ![p] =
                  thrown(handleDatabaseError(error, "post transaction"), work[p].next - 1)]
  /\ pc' = [pc EXCEPT ![p] = "done"]
  /\ lastRead' = NoRead
  /\ UNCHANGED <<ledgers, entries, input, snap, nextId, clock>>

\* --------------------------------------------------------- postTransaction

\* The handler is free (its previous call, if any, has returned) and
\* postTransaction is called: assertBalancedEntries, then db.transaction begins
\* and binds app.tenant_id (now() is the start of the database transaction).
Call(p, in) ==
  /\ UNCHANGED keyVars
  /\ pc[p] \in {"idle", "done"}
  /\ clock < MaxCalls
  /\ clock' = clock + 1
  /\ input' = [input EXCEPT ![p] = in]
  /\ snap' = [snap EXCEPT ![p] = committed]
  /\ IF assertBalancedEntries(in.entries) # "ok"
       THEN /\ result' = [result EXCEPT ![p] =
                 thrown(handleDatabaseError(
                   DomainError("INVARIANT_VIOLATION", assertBalancedEntries(in.entries)),
                   "post transaction"), 0)]
            /\ pc' = [pc EXCEPT ![p] = "done"]
            /\ UNCHANGED work
       ELSE /\ work' = [work EXCEPT ![p] = [NoWork EXCEPT !.now = clock']]
            /\ pc' = [pc EXCEPT ![p] = "insertTransaction"]
            /\ UNCHANGED result
  /\ lastRead' = NoRead
  /\ UNCHANGED <<ledgers, accounts, transactions, entries, rowLock, dirty, nextId>>

\* An insert that never finds its key in the index.
noUniqueConflict(p) == FALSE

\* A unique index on (tenant_id, ledger_id, reference).
conflictWithinLedger(p) ==
  \E t \in findByReference(transactions, input[p].tenantId, input[p].reference) :
    t.ledgerId = input[p].ledgerId

\* Whether the unique index transactions(tenant_id, reference) holds a committed
\* row with the key of p's input.
uniqueConflict(p) ==
  findByReference(transactions, input[p].tenantId, input[p].reference) # {}

\* An insert that waits for no uncommitted row.
insertNeverWaits(p) == {}

\* The open transactions whose uncommitted row holds the key of p's input: the
\* INSERT waits until each of them has committed or rolled back.
insertWaitsFor(p) == pendingByReference(p, input[p].tenantId, input[p].reference)

\* INSERT INTO transactions ... ON CONFLICT (tenant_id, reference) DO NOTHING
\* RETURNING id.
InsertTransaction(p) ==
  /\ UNCHANGED keyVars
  /\ pc[p] = "insertTransaction"
  /\ insertWaitsFor(p) = {}
  /\ IF uniqueConflict(p)
       THEN /\ pc' = [pc EXCEPT ![p] = "selectExisting"]
            /\ lastRead' = NoRead
            /\ UNCHANGED <<ledgers, accounts, transactions, entries, rowLock, dirty,
                           input, work, result, snap, nextId, clock>>
       ELSE IF input[p].ledgerId \notin {l.id : l \in ledgers}
         THEN Throw(p, DatabaseError(ForeignKeyViolation))
         ELSE /\ nextId' = nextId + 1
              /\ work' = [work EXCEPT ![p].txRow =
                   <<[id |-> nextId', tenantId |-> input[p].tenantId,
                      ledgerId |-> input[p].ledgerId, reference |-> input[p].reference,
                      currency |-> input[p].currency, createdAt |-> work[p].now]>>]
              /\ pc' = [pc EXCEPT ![p] = "insertEntries"]
              /\ lastRead' = NoRead
              /\ UNCHANGED <<ledgers, accounts, transactions, entries, rowLock, dirty,
                             input, result, snap, clock>>

\* A lookup that reads the tables as they were when p's call started (the
\* snapshot of a REPEATABLE READ transaction).
snapshotOfTransaction(p) == snap[p]

\* The tables a statement of p's database transaction reads: db.transaction
\* sets no isolation level, so under READ COMMITTED every statement sees the
\* rows committed before it started.
snapshotOfStatement(p) == committed

\* The insert returned no row: SELECT id FROM transactions WHERE tenant_id and
\* reference match, LIMIT 1; the callback returns and the transaction commits.
SelectExisting(p) ==
  /\ UNCHANGED keyVars
  /\ pc[p] = "selectExisting"
  /\ LET rows == findByReference(snapshotOfStatement(p).transactions,
                                 input[p].tenantId, input[p].reference) IN
     IF rows = {}
       THEN Throw(p, DomainError("REPOSITORY_ERROR",
                                 "Unable to resolve idempotent transaction"))
       ELSE /\ result' = [result EXCEPT ![p] =
                 returned((CHOOSE t \in rows : TRUE).id, FALSE)]
            /\ work' = [work EXCEPT ![p] = NoWork]
            /\ pc' = [pc EXCEPT ![p] = "done"]
            /\ lastRead' = NoRead
            /\ UNCHANGED <<ledgers, accounts, transactions, entries, rowLock, dirty,
                           input, snap, nextId, clock>>

\* INSERT INTO entries, one batch; account_id references accounts(id).
InsertEntries(p) ==
  /\ UNCHANGED keyVars
  /\ pc[p] = "insertEntries"
  /\ IF \E i \in 1..Len(input[p].entries) : input[p].entries[i].accountId \notin AccountIds
       THEN Throw(p, DatabaseError(ForeignKeyViolation))
       ELSE /\ work' = [work EXCEPT
                 ![p].entryRows = entryRows(input[p], work[p].txRow[1].id, work[p].now),
                 ![p].next = 1]
            /\ pc' = [pc EXCEPT ![p] = "updateAccount"]
            /\ lastRead' = NoRead
            /\ UNCHANGED <<ledgers, accounts, transactions, entries, rowLock, dirty,
                           input, result, snap, nextId, clock>>

\* The entry whose account p updates next.
nextEntry(p) == entriesForBalanceUpdate(input[p].entries)[work[p].next]

\* The handler whose row lock p's next UPDATE waits for, if any.
updateWaitsFor(p) ==
  LET a == nextEntry(p).accountId IN
  IF accountMatches(accounts, a, input[p]) /\ rowLock[a] \notin {NoProc, p}
    THEN {rowLock[a]} ELSE {}

\* UPDATE accounts SET balance_minor = balance_minor + delta, updated_at = now()
\* WHERE id, tenant_id, ledger_id and currency match RETURNING id.
UpdateAccount(p) ==
  /\ UNCHANGED keyVars
  /\ pc[p] = "updateAccount"
  /\ updateWaitsFor(p) = {}
  /\ LET entry == nextEntry(p)
         a == entry.accountId
     IN
     IF ~accountMatches(accounts, a, input[p])
       THEN Throw(p, DomainError("INVARIANT_VIOLATION",
                    "Unable to post transaction: account ledger/currency mismatch"))
       ELSE IF ~inBigintRange(currentBalance(p, a) + delta(entry))
         THEN Throw(p, DatabaseError(NumericValueOutOfRange))
         ELSE /\ dirty' = [dirty EXCEPT ![a] =
                   [balanceMinor |-> currentBalance(p, a) + delta(entry),
                    updatedAt |-> work[p].now]]
              /\ rowLock' = [rowLock EXCEPT ![a] = p]
              /\ work' = [work EXCEPT ![p].next = work[p].next + 1]
              /\ pc' = [pc EXCEPT ![p] =
                   IF work[p].next = Len(input[p].entries) THEN "commit"
                   ELSE "updateAccount"]
              /\ lastRead' = NoRead
              /\ UNCHANGED <<ledgers, accounts, transactions, entries, input, result,
                             snap, nextId, clock>>

\* The callback returned {transactionId, created: true}: COMMIT.
Commit(p) ==
  /\ UNCHANGED keyVars
  /\ pc[p] = "commit"
  /\ transactions' = transactions \cup {work[p].txRow[1]}
  /\ entries' = entries \cup work[p].entryRows
  /\ accounts' = accountsAfterCommit(p)
  /\ dirty' = cleanDirty(p, accounts')
  /\ rowLock' = releaseLocks(p)
  /\ result' = [result EXCEPT ![p] = returned(work[p].txRow[1].id, TRUE)]
  /\ work' = [work EXCEPT ![p] = NoWork]
  /\ pc' = [pc EXCEPT ![p] = "done"]
  /\ lastRead' = NoRead
  /\ UNCHANGED <<ledgers, input, snap, nextId, clock>>

\* ---------------------------------------------------------------- inputs

\* One entry of an input.
Entry(accountId, direction, amountMinor, currency) ==
  [accountId |-> accountId, direction |-> direction, amountMinor |-> amountMinor,
   currency |-> currency]

\* Postings of tenant tA to ledger 1 in USD: a DEBIT then a CREDIT of the same
\* amount, to accounts 1 and 2 in either order (the two orders take the row
\* locks of an unsorted update in opposite orders) or to account 2 and the EUR
\* account 3 (the second update matches no row).
ConcurrentInputs ==
  {[tenantId |-> "tA", ledgerId |-> 1, reference |-> r, currency |-> "USD",
    entries |-> <<Entry(ab[1], "DEBIT", m, "USD"), Entry(ab[2], "CREDIT", m, "USD")>>] :
     r \in References, ab \in {<<1, 2>>, <<2, 1>>, <<2, 3>>}, m \in {MaxAmount}}

Next ==
  \E p \in Procs :
    \/ \E in \in ConcurrentInputs : Call(p, in)
    \/ InsertTransaction(p)
    \/ SelectExisting(p)
    \/ InsertEntries(p)
    \/ UpdateAccount(p)
    \/ Commit(p)

Spec == Init /\ [][Next]_vars

\* ------------------------------------------------- sequential postings

Header(tenantId, ledgerId, currency) ==
  [tenantId |-> tenantId, ledgerId |-> ledgerId, currency |-> currency]

\* (tenant, ledger, currency) of the inputs of one caller: the ledger and USD
\* accounts of tA, the same ledger in EUR, tA's other ledger, a ledger id that
\* names no row, and tB's ledger.
SeqHeaders ==
  {Header("tA", 1, "USD"), Header("tA", 1, "EUR"), Header("tA", 2, "USD"),
   Header("tA", UnknownLedgerId, "USD"), Header("tB", 3, "USD")}

\* Entry lists: a DEBIT of MaxAmount to account 1 and a CREDIT of any amount
\* and entry currency to any account id (an unknown one included); one entry
\* alone; three entries, DEBIT 2 = CREDIT 1 + CREDIT 1; a DEBIT and a CREDIT
\* of the same amount that is zero or negative.
SeqEntryLists ==
  {<<Entry(1, "DEBIT", MaxAmount, "USD"), Entry(b, "CREDIT", n, c)>> :
     b \in AccountIds \cup {UnknownAccountId}, n \in 1..MaxAmount, c \in Currencies}
  \cup {<<Entry(1, "DEBIT", 1, "USD")>>}
  \cup {<<Entry(2, "DEBIT", 2, "USD"), Entry(1, "CREDIT", 1, "USD"),
          Entry(1, "CREDIT", 1, "USD")>>}
  \cup {<<Entry(1, "DEBIT", n, "USD"), Entry(2, "CREDIT", n, "USD")>> : n \in {-1, 0}}

SeqInputs ==
  {[tenantId |-> h.tenantId, ledgerId |-> h.ledgerId, reference |-> r,
    currency |-> h.currency, entries |-> es] :
     h \in SeqHeaders, r \in References, es \in SeqEntryLists}

\* One caller: each call starts after the previous one returned.
SeqNext ==
  \/ \E in \in SeqInputs : Call(1, in)
  \/ InsertTransaction(1)
  \/ SelectExisting(1)
  \/ InsertEntries(1)
  \/ UpdateAccount(1)
  \/ Commit(1)

SeqSpec == Init /\ [][SeqNext]_vars

\* Two callers, one call each: the second call starts after the first returned.
RetryNext ==
  \/ \E in \in SeqInputs : pc[1] = "idle" /\ Call(1, in)
  \/ \E in \in SeqInputs : pc[1] = "done" /\ pc[2] = "idle" /\ Call(2, in)
  \/ \E p \in Procs :
       \/ InsertTransaction(p)
       \/ SelectExisting(p)
       \/ InsertEntries(p)
       \/ UpdateAccount(p)
       \/ Commit(p)

RetrySpec == Init /\ [][RetryNext]_vars

\* Postings of both tenants with the same references: each tenant posts to its
\* own ledger, a DEBIT and a CREDIT of 1 to its own two USD accounts or to the
\* two USD accounts of the other tenant.
TenantInputs ==
  {[tenantId |-> h.tenantId, ledgerId |-> h.ledgerId, reference |-> r,
    currency |-> h.currency,
    entries |-> <<Entry(ab[1], "DEBIT", 1, "USD"), Entry(ab[2], "CREDIT", 1, "USD")>>] :
     h \in {Header("tA", 1, "USD"), Header("tB", 3, "USD")}, r \in References,
     ab \in {<<1, 2>>, <<5, 6>>}}

\* Two callers, one call each, concurrently.
TenantNext ==
  \/ \E p \in {1, 2} : \E in \in TenantInputs : pc[p] = "idle" /\ Call(p, in)
  \/ \E p \in Procs :
       \/ InsertTransaction(p)
       \/ SelectExisting(p)
       \/ InsertEntries(p)
       \/ UpdateAccount(p)
       \/ Commit(p)

TenantSpec == Init /\ [][TenantNext]_vars

\* ----------------------------------------------------------------- reads

Min(a, b) == IF a < b THEN a ELSE b

\* query.cursor of a request that carries no cursor.
NoCursor == << >>

\* A timestamptz column counts microseconds, a JavaScript Date counts
\* milliseconds.  The driver reads a column into a Date (the microseconds below
\* the millisecond are dropped) and writes a Date parameter as its ISO text.
toDate(timestamp) == timestamp \div MicrosPerMilli
toTimestamp(date) == date * MicrosPerMilli

\* A row of a select as the program holds it: its timestamp columns are Dates.
fromDriver(row) ==
  [f \in DOMAIN row |->
     IF f \in {"createdAt", "updatedAt"} THEN toDate(row[f]) ELSE row[f]]

\* getTime() of a Date made from a text that is no date.
NaN == -1

\* A cursor text is given by what decoding finds in it: text that JSON.parse
\* rejects, a JSON value that is no object, or an object whose fields
\* created_at and id are each absent, a number or a string; a string
\* created_at holds the milliseconds it parses to, NaN when it is no date.
JsonField(type, value) == [type |-> type, value |-> value]
AbsentField == JsonField("undefined", 0)
CursorText(json, created_at, id) == [json |-> json, created_at |-> created_at, id |-> id]

\* A cursor text that keeps the date of the row and not its id.
encodeCreatedAtOnly(createdAt, id) ==
  <<CursorText("object", JsonField("string", createdAt), JsonField("string", NoId))>>

\* encodeCursor: base64url of the JSON text {created_at: toISOString(), id}.
\* toISOString prints the milliseconds of the Date in full.
encodeCursor(createdAt, id) ==
  <<CursorText("object", JsonField("string", createdAt), JsonField("string", id))>>

InvalidCursor == DomainError("INVARIANT_VIOLATION", "Invalid cursor")

\* A parse that accepts every object with two string fields, whatever the date.
parseAnyDate(cursor) ==
  IF cursor = NoCursor THEN [error |-> << >>, value |-> << >>]
  ELSE IF \/ cursor[1].json # "object"
          \/ cursor[1].created_at.type # "string"
          \/ cursor[1].id.type # "string"
    THEN [error |-> <<InvalidCursor>>, value |-> << >>]
    ELSE [error |-> << >>,
          value |-> <<[createdAt |-> cursor[1].created_at.value,
                       id |-> cursor[1].id.value]>>]

\* parseCursor: null for no cursor; the CursorValue the text holds; 'Invalid
\* cursor' thrown for every text that holds none.
parseCursor(cursor) ==
  IF cursor = NoCursor THEN [error |-> << >>, value |-> << >>]
  ELSE IF cursor[1].json = "unparseable" THEN [error |-> <<InvalidCursor>>, value |-> << >>]
  ELSE IF cursor[1].json # "object" THEN [error |-> <<InvalidCursor>>, value |-> << >>]
  ELSE IF cursor[1].created_at.type # "string" \/ cursor[1].id.type # "string"
    THEN [error |-> <<InvalidCursor>>, value |-> << >>]
  ELSE IF cursor[1].created_at.value = NaN
    THEN [error |-> <<InvalidCursor>>, value |-> << >>]
  ELSE [error |-> << >>,
        value |-> <<[createdAt |-> cursor[1].created_at.value, id |-> cursor[1].id.value]>>]

\* A snapshot that shows the row versions of transactions still open.
uncommittedSnapshot ==
  [committed EXCEPT !.accounts =
     [a \in AccountIds |->
        IF rowLock[a] # NoProc
          THEN [accounts[a] EXCEPT !.balanceMinor = dirty[a].balanceMinor,
                                   !.updatedAt = dirty[a].updatedAt]
          ELSE accounts[a]]]

\* What a statement of a read sees at READ COMMITTED: the committed rows.
readSnapshot == committed

\* A filter that lets the rows of every tenant through.
anyTenantRows(rows, tenantId) == rows

\* eq(tenantId, ...) of a WHERE clause (the row-level security policy of the
\* table, bound by withTenantContext, applies the same test).
tenantRows(rows, tenantId) == {r \in rows : r.tenantId = tenantId}

\* The rows of table accounts, each with its id.
accountRows(tbl) ==
  {[id |-> a, tenantId |-> tbl[a].tenantId, ledgerId |-> tbl[a].ledgerId,
    currency |-> tbl[a].currency, balanceMinor |-> tbl[a].balanceMinor,
    createdAt |-> tbl[a].createdAt, updatedAt |-> tbl[a].updatedAt] : a \in DOMAIN tbl}

\* The keyset predicate of a listing: the row comes after the cursor in
\* (createdAt, id) order.
cursorPredicate(row, cursor) ==
  \/ cursor = << >>
  \/ row.createdAt > toTimestamp(cursor[1].createdAt)
  \/ row.createdAt = toTimestamp(cursor[1].createdAt) /\ row.id > cursor[1].id

RECURSIVE orderByCreatedAtId(_)
\* ORDER BY created_at ASC, id ASC.
orderByCreatedAtId(rows) ==
  IF rows = {} THEN << >>
  ELSE LET first == CHOOSE r \in rows :
                      \A o \in rows :
                        \/ r.createdAt < o.createdAt
                        \/ r.createdAt = o.createdAt /\ r.id <= o.id
       IN <<first>> \o orderByCreatedAtId(rows \ {first})

toLedger(row) ==
  [id |-> row.id, tenantId |-> row.tenantId, createdAt |-> row.createdAt,
   updatedAt |-> row.updatedAt]

toAccountListItem(row) ==
  [id |-> row.id, tenantId |-> row.tenantId, ledgerId |-> row.ledgerId,
   currency |-> row.currency, balanceMinor |-> row.balanceMinor,
   createdAt |-> row.createdAt]

toTransactionListItem(row) ==
  [id |-> row.id, tenantId |-> row.tenantId, ledgerId |-> row.ledgerId,
   reference |-> row.reference, currency |-> row.currency, createdAt |-> row.createdAt]

toEntryListItem(row) ==
  [id |-> row.id, transactionId |-> row.transactionId, accountId |-> row.accountId,
   direction |-> row.direction, amountMinor |-> row.amountMinor,
   currency |-> row.currency, createdAt |-> row.createdAt]

\* The page of a listing over the rows of one table: the tenant's rows after
\* the cursor, ordered, limit + 1 of them fetched.
listPage(rows, query) ==
  LET parsed == parseCursor(query.cursor)
      cursor == parsed.value
      matching == {r \in tenantRows(rows, query.tenantId) : cursorPredicate(r, cursor)}
      ordered == orderByCreatedAtId(matching)
      fetched == [i \in 1..Min(Len(ordered), query.limit + 1) |-> fromDriver(ordered[i])]
      hasNext == Len(fetched) > query.limit
      pageRows == IF hasNext THEN SubSeq(fetched, 1, query.limit) ELSE fetched
  IN IF parsed.error # << >>
       THEN [error |-> parsed.error, pageRows |-> << >>, nextCursor |-> NoCursor]
       ELSE [error |-> << >>,
             pageRows |-> pageRows,
             nextCursor |-> IF hasNext /\ pageRows # << >>
                              THEN encodeCursor(pageRows[Len(pageRows)].createdAt,
                                                pageRows[Len(pageRows)].id)
                              ELSE NoCursor]

listAccounts(db, query) ==
  LET page == listPage(accountRows(db.accounts), query) IN
  IF page.error # << >> THEN handleDatabaseError(page.error[1], "list accounts")
  ELSE [kind |-> "ok",
        data |-> [i \in 1..Len(page.pageRows) |-> toAccountListItem(page.pageRows[i])],
        nextCursor |-> page.nextCursor]

listTransactions(db, query) ==
  LET page == listPage(db.transactions, query) IN
  IF page.error # << >> THEN handleDatabaseError(page.error[1], "list transactions")
  ELSE [kind |-> "ok",
        data |-> [i \in 1..Len(page.pageRows) |-> toTransactionListItem(page.pageRows[i])],
        nextCursor |-> page.nextCursor]

listEntries(db, query) ==
  LET page == listPage(db.entries, query) IN
  IF page.error # << >> THEN handleDatabaseError(page.error[1], "list entries")
  ELSE [kind |-> "ok",
        data |-> [i \in 1..Len(page.pageRows) |-> toEntryListItem(page.pageRows[i])],
        nextCursor |-> page.nextCursor]

\* The ledger with this id if the tenant owns it, else null.
findLedgerByIdForTenant(db, tenantId, id) ==
  LET rows == {l \in tenantRows(db.ledgers, tenantId) : l.id = id} IN
  IF rows = {} THEN << >> ELSE <<toLedger(fromDriver(CHOOSE l \in rows : TRUE))>>

LedgerNotFoundError(id) ==
  [kind |-> "LEDGER_NOT_FOUND", message |-> "Ledger not found", ledgerId |-> id]

\* LedgerService.getLedgerById(tenantId, id): tenant-scoped, a missing ledger
\* is LEDGER_NOT_FOUND.
getLedgerById(db, tenantId, id) ==
  LET ledger == findLedgerByIdForTenant(db, tenantId, id) IN
  IF ledger = << >> THEN LedgerNotFoundError(id)
  ELSE [kind |-> "ok", ledger |-> ledger[1]]

findLedgersByTenant(db, tenantId) ==
  LET rows == orderByCreatedAtId(tenantRows(db.ledgers, tenantId)) IN
  [kind |-> "ok", data |-> [i \in 1..Len(rows) |-> toLedger(fromDriver(rows[i]))]]

\* A classification that takes a zero balance for CREDIT-normal.
zeroIsCredit(row) ==
  LET isDebit == row.balanceMinor < 0
      absoluteBalance == IF row.balanceMinor < 0 THEN -row.balanceMinor
                         ELSE row.balanceMinor
  IN [accountId |-> row.id, code |-> row.id,
      normalBalance |-> IF isDebit THEN "DEBIT" ELSE "CREDIT",
      balanceMinor |-> absoluteBalance]

\* One account of a trial balance: DEBIT-normal when its balance is <= 0,
\* reported with the absolute value of the balance.
trialBalanceAccount(row) ==
  LET isDebit == row.balanceMinor <= 0
      absoluteBalance == IF row.balanceMinor < 0 THEN -row.balanceMinor
                         ELSE row.balanceMinor
  IN [accountId |-> row.id, code |-> row.id,
      normalBalance |-> IF isDebit THEN "DEBIT" ELSE "CREDIT",
      balanceMinor |-> absoluteBalance]

getTrialBalance(db, query) ==
  IF {l \in tenantRows(db.ledgers, query.tenantId) : l.id = query.ledgerId} = {}
    THEN LedgerNotFoundError(query.ledgerId)
    ELSE
      LET rows == orderByCreatedAtId(
                    {r \in tenantRows(accountRows(db.accounts), query.tenantId) :
                       r.ledgerId = query.ledgerId})
          items == [i \in 1..Len(rows) |-> trialBalanceAccount(rows[i])]
          total(side) == SumSet({i \in 1..Len(items) : items[i].normalBalance = side},
                                [i \in 1..Len(items) |-> items[i].balanceMinor])
      IN IF total("DEBIT") # total("CREDIT")
           THEN handleDatabaseError(
                  DomainError("REPOSITORY_ERROR", "trial balance totals mismatch"),
                  "get trial balance")
           ELSE [kind |-> "ok", ledgerId |-> query.ledgerId, accounts |-> items,
                 totalDebitsMinor |-> total("DEBIT"),
                 totalCreditsMinor |-> total("CREDIT")]

\* The step of a read: its answer is delivered, no table changes.  A read
\* answered right after another read gives the state that read gives in its
\* place, so the step is taken from the states that hold no answer.
Answer(op, query, outcome) ==
  /\ UNCHANGED keyVars
  /\ lastRead = NoRead
  /\ lastRead' = [op |-> op, query |-> query, outcome |-> outcome]
  /\ UNCHANGED <<ledgers, accounts, transactions, entries, rowLock, dirty, pc, input,
                 work, result, snap, nextId, clock>>

ListAccounts(query) == Answer("listAccounts", query, listAccounts(readSnapshot, query))

ListTransactions(query) ==
  Answer("listTransactions", query, listTransactions(readSnapshot, query))

ListEntries(query) == Answer("listEntries", query, listEntries(readSnapshot, query))

GetLedgerById(query) ==
  Answer("getLedgerById", query, getLedgerById(readSnapshot, query.tenantId, query.ledgerId))

FindLedgersByTenant(query) ==
  Answer("findLedgersByTenant", query, findLedgersByTenant(readSnapshot, query.tenantId))

GetTrialBalance(query) ==
  Answer("getTrialBalance", query, getTrialBalance(readSnapshot, query))

\* Page sizes a client asks for.
Limits == 1..2

\* Cursor texts that hold no cursor value: bad JSON, a value that is no
\* object, a field that is absent or a number, a created_at that is no date.
MalformedCursors ==
  {<<CursorText("unparseable", AbsentField, AbsentField)>>,
   <<CursorText("number", AbsentField, AbsentField)>>,
   <<CursorText("object", AbsentField, JsonField("string", 1))>>,
   <<CursorText("object", JsonField("number", 0), JsonField("string", 1))>>,
   <<CursorText("object", JsonField("string", 0), AbsentField)>>,
   <<CursorText("object", JsonField("string", 0), JsonField("number", 1))>>,
   <<CursorText("object", JsonField("string", NaN), JsonField("string", 1))>>}

\* Listing queries: any tenant, any page size, no cursor, the cursor of any row
\* of the table as a page returns it, or a malformed cursor.
PaginationQueries(rows) ==
  {[tenantId |-> t, limit |-> n, cursor |-> c] :
     t \in Tenants, n \in Limits,
     c \in {NoCursor} \cup MalformedCursors
            \cup {encodeCursor(toDate(r.createdAt), r.id) : r \in rows}}

\* Ledger queries: any tenant, any ledger id, an unknown one included.
LedgerQueries ==
  {[tenantId |-> t, ledgerId |-> l] :
     t \in Tenants, l \in LedgerIds \cup {UnknownLedgerId}}

TenantQueries == {[tenantId |-> t] : t \in Tenants}

\* Postings that run beside the reads: tA posts to accounts 1 and 2 of its
\* ledger 1, tA posts to account 2 and the EUR account 3 (the posting rolls
\* back after its first update), tB posts to its accounts 5 and 6.
ReadInputs ==
  {[tenantId |-> x[1], ledgerId |-> x[2], reference |-> x[3], currency |-> "USD",
    entries |-> <<Entry(x[4], "DEBIT", MaxAmount, "USD"),
                  Entry(x[5], "CREDIT", MaxAmount, "USD")>>] :
     x \in {<<"tA", 1, "r1", 1, 2>>, <<"tA", 1, "r2", 2, 3>>, <<"tB", 3, "r1", 5, 6>>}}

\* One caller posts; every read may be answered between any two of its
\* statements.
ReadNext ==
  \/ \E in \in ReadInputs : Call(1, in)
  \/ InsertTransaction(1)
  \/ SelectExisting(1)
  \/ InsertEntries(1)
  \/ UpdateAccount(1)
  \/ Commit(1)
  \/ \E query \in PaginationQueries(accountRows(accounts)) : ListAccounts(query)
  \/ \E query \in PaginationQueries(transactions) : ListTransactions(query)
  \/ \E query \in PaginationQueries(entries) : ListEntries(query)
  \/ \E query \in LedgerQueries : GetLedgerById(query)
  \/ \E query \in TenantQueries : FindLedgersByTenant(query)
  \/ \E query \in LedgerQueries : GetTrialBalance(query)

ReadSpec == Init /\ [][ReadNext]_vars

\* Concurrent callers post; a trial balance may be answered between any two
\* statements of theirs.
TrialNext ==
  \/ \E p \in Procs :
       \/ \E in \in ReadInputs : Call(p, in)
       \/ InsertTransaction(p)
       \/ SelectExisting(p)
       \/ InsertEntries(p)
       \/ UpdateAccount(p)
       \/ Commit(p)
  \/ \E query \in LedgerQueries : GetTrialBalance(query)

TrialSpec == Init /\ [][TrialNext]_vars

\* ------------------------------------------------------------- API keys

\* A string a client supplies, given by its text without the whitespace around
\* it and by whether whitespace precedes and follows that text; Text("", TRUE,
\* FALSE) is a string of whitespace only.
Text(text, leading, trailing) == [text |-> text, leading |-> leading, trailing |-> trailing]

EmptyText == Text("", FALSE, FALSE)

\* A normalisation that keeps the whitespace around the text.
keepWhitespace(string) == string

\* String.prototype.trim.
trim(string) == Text(string.text, FALSE, FALSE)

\* hashApiKey: the SHA-256 hex digest of the string; two strings have one
\* digest only when they are the same string.
hashApiKey(apiKey) == [sha256 |-> apiKey]

\* The keys createApiKey can generate: API_KEY_PREFIX and the hex of random
\* bytes, no whitespace.
GeneratedKeys == {Text("llk_1", FALSE, FALSE), Text("llk_2", FALSE, FALSE)}

ApiKeyRoles == {"ADMIN", "SERVICE"}

UnauthorizedError(message) == DomainError("UNAUTHORIZED", message)
ForbiddenError(message) == DomainError("FORBIDDEN", message)
InvariantViolationError(message) == DomainError("INVARIANT_VIOLATION", message)
UniqueViolation == "23505"

\* What an ApiKeyService call throws for a domain error.
keyError(error) == [kind |-> error.kind, message |-> error.message]

\* ApiKeyRepository.findActiveApiKeyByHash: the key with this hash that is not
\* revoked, else null.
findActiveApiKeyByHash(rows, keyHash) ==
  LET found == {k \in rows : k.keyHash = keyHash /\ k.revokedAt = << >>} IN
  IF found = {} THEN << >>
  ELSE LET row == CHOOSE k \in found : TRUE
       IN <<[id |-> row.id, tenantId |-> row.tenantId,
             role |-> IF row.role = "ADMIN" THEN "ADMIN" ELSE "SERVICE",
             keyHash |-> row.keyHash, revokedAt |-> row.revokedAt]>>

\* ApiKeyService.authenticate.
authenticate(rows, rawApiKey) ==
  LET normalized == trim(rawApiKey) IN
  IF normalized = EmptyText
    THEN keyError(UnauthorizedError("API key is required"))
    ELSE LET key == findActiveApiKeyByHash(rows, hashApiKey(normalized)) IN
         IF key = << >> \/ key[1].revokedAt # << >>
           THEN keyError(UnauthorizedError("Invalid API key"))
           ELSE [kind |-> "ok",
                 context |-> [apiKeyId |-> key[1].id, tenantId |-> key[1].tenantId,
                              role |-> key[1].role]]

toApiKeyListItem(row) ==
  [id |-> row.id, tenantId |-> row.tenantId, name |-> row.name, role |-> row.role,
   createdAt |-> toDate(row.createdAt),
   revokedAt |-> IF row.revokedAt = << >> THEN << >> ELSE <<toDate(row.revokedAt[1])>>]

\* The row that insert into api_keys adds: a fresh id, created_at now(), not
\* revoked.
apiKeyRow(rows, in, now) ==
  [id |-> Cardinality(rows) + 1, tenantId |-> in.tenantId, name |-> in.name,
   role |-> in.role, keyHash |-> in.keyHash, createdAt |-> now, revokedAt |-> << >>]

\* The error of insert into api_keys, if any: the tenant is no row of tenants,
\* or a row holds the key hash already (api_keys_key_hash_uq).
apiKeyInsertError(rows, tenantIds, in) ==
  IF in.tenantId \notin tenantIds THEN <<DatabaseError(ForeignKeyViolation)>>
  ELSE IF \E k \in rows : k.keyHash = in.keyHash THEN <<DatabaseError(UniqueViolation)>>
  ELSE << >>

\* An update that sets revoked_at on the tenant's key when it is active and
\* clears it when it is revoked.
toggledRows(rows, tenantId, apiKeyId, now) ==
  {IF k.id = apiKeyId /\ k.tenantId = tenantId
     THEN [k EXCEPT !.revokedAt = IF @ = << >> THEN <<now>> ELSE << >>]
     ELSE k : k \in rows}

\* An update that sets revoked_at on the active key with this id, whatever its
\* tenant.
revokedRowsOfAnyTenant(rows, tenantId, apiKeyId, now) ==
  {IF k.id = apiKeyId /\ k.revokedAt = << >>
     THEN [k EXCEPT !.revokedAt = <<now>>]
     ELSE k : k \in rows}

\* ApiKeyRepository.revokeApiKey: the rows of api_keys after update ... set
\* revoked_at = now() where id, tenant_id match and revoked_at is null.
revokedRows(rows, tenantId, apiKeyId, now) ==
  {IF k.id = apiKeyId /\ k.tenantId = tenantId /\ k.revokedAt = << >>
     THEN [k EXCEPT !.revokedAt = <<now>>]
     ELSE k : k \in rows}

\* Checks of createApiKey that leave out the tenant of the actor.
anyTenantError(actor, in) ==
  IF actor.role # "ADMIN" THEN <<ForbiddenError("Admin API key is required")>>
  ELSE IF trim(in.name) = EmptyText THEN <<InvariantViolationError("name is required")>>
  ELSE IF in.role \notin ApiKeyRoles THEN <<InvariantViolationError("Invalid API key role")>>
  ELSE << >>

\* The error of the checks createApiKey makes before it generates a key.
createApiKeyError(actor, in) ==
  IF actor.role # "ADMIN" THEN <<ForbiddenError("Admin API key is required")>>
  ELSE IF actor.tenantId # in.tenantId
    THEN <<ForbiddenError("Cross-tenant key management is not allowed")>>
  ELSE IF trim(in.name) = EmptyText THEN <<InvariantViolationError("name is required")>>
  ELSE IF in.role \notin ApiKeyRoles THEN <<InvariantViolationError("Invalid API key role")>>
  ELSE << >>

\* The error of the checks bootstrapInitialAdmin makes.
bootstrapError(in) ==
  IF trim(in.tenantName) = EmptyText
    THEN <<InvariantViolationError("tenantName is required")>>
  ELSE IF trim(in.keyName) = EmptyText
    THEN <<InvariantViolationError("keyName is required")>>
  ELSE IF trim(in.rawApiKey) = EmptyText
    THEN <<InvariantViolationError("rawApiKey is required")>>
  ELSE << >>

\* The step of an ApiKeyService call: its answer is delivered.
KeyAnswer(op, actor, in, outcome) ==
  /\ lastKey' = [op |-> op, actor |-> actor, input |-> <<in>>, outcome |-> outcome]
  /\ UNCHANGED <<ledgers, accounts, transactions, entries, rowLock, dirty, pc, input,
                 work, result, snap, nextId, lastRead, lastHttp, pool, cancelled>>

\* authenticate reads the key store.  An authenticate answered right after
\* another gives the state it gives in the other's place.
Authenticate(rawApiKey) ==
  /\ lastKey.op # "authenticate"
  /\ KeyAnswer("authenticate", << >>, rawApiKey, authenticate(apiKeys, rawApiKey))
  /\ UNCHANGED <<tenants, apiKeys, clock>>

\* createApiKey(actor, in), generated the key randomBytes gives.
CreateApiKey(actor, in, generated) ==
  /\ clock < MaxKeyCalls
  /\ clock' = clock + 1
  /\ tenants' = tenants
  /\ LET rejected == createApiKeyError(actor, in)
         values == [tenantId |-> in.tenantId, name |-> trim(in.name), role |-> in.role,
                    keyHash |-> hashApiKey(generated)]
         failed == apiKeyInsertError(apiKeys, tenants, values)
         created == apiKeyRow(apiKeys, values, clock')
     IN IF rejected # << >>
          THEN /\ apiKeys' = apiKeys
               /\ KeyAnswer("createApiKey", <<actor>>, in, keyError(rejected[1]))
          ELSE IF failed # << >>
            THEN /\ apiKeys' = apiKeys
                 /\ KeyAnswer("createApiKey", <<actor>>, in,
                              handleDatabaseError(failed[1], "create api key"))
            ELSE /\ apiKeys' = apiKeys \cup {created}
                 /\ KeyAnswer("createApiKey", <<actor>>, in,
                              [kind |-> "ok", apiKey |-> generated,
                               key |-> toApiKeyListItem(created)])

\* revokeApiKey(actor, apiKeyId), apiKeyId a non-empty id.
RevokeApiKey(actor, apiKeyId) ==
  /\ clock < MaxKeyCalls
  /\ clock' = clock + 1
  /\ tenants' = tenants
  /\ LET after == revokedRows(apiKeys, actor.tenantId, apiKeyId, clock')
         revoked == after # apiKeys
     IN IF actor.role # "ADMIN"
          THEN /\ apiKeys' = apiKeys
               /\ KeyAnswer("revokeApiKey", <<actor>>, apiKeyId,
                            keyError(ForbiddenError("Admin API key is required")))
          ELSE /\ apiKeys' = after
               /\ KeyAnswer("revokeApiKey", <<actor>>, apiKeyId,
                            IF revoked THEN [kind |-> "ok"]
                            ELSE keyError(InvariantViolationError("API key not found")))

\* A count of the keys that are not revoked.
countActiveApiKeys(rows) == Cardinality({k \in rows : k.revokedAt = << >>})

\* ApiKeyRepository.countApiKeys: select count(*) from api_keys.
countApiKeys(rows) == Cardinality(rows)

\* The id createTenant gives the tenant of the first admin key.
BootstrapTenant == "tC"

\* bootstrapInitialAdmin(in) of one caller with no other call between its
\* statements.
BootstrapInitialAdmin(in) ==
  /\ clock < MaxKeyCalls
  /\ clock' = clock + 1
  /\ LET rejected == bootstrapError(in)
         values == [tenantId |-> BootstrapTenant, name |-> trim(in.keyName),
                    role |-> "ADMIN", keyHash |-> hashApiKey(in.rawApiKey)]
         created == apiKeyRow(apiKeys, values, clock')
     IN IF rejected # << >>
          THEN /\ UNCHANGED <<tenants, apiKeys>>
               /\ KeyAnswer("bootstrapInitialAdmin", << >>, in, keyError(rejected[1]))
          ELSE IF countApiKeys(apiKeys) > 0
            THEN /\ UNCHANGED <<tenants, apiKeys>>
                 /\ KeyAnswer("bootstrapInitialAdmin", << >>, in,
                              [kind |-> "ok", created |-> FALSE,
                               tenantId |-> << >>, apiKeyId |-> << >>])
            ELSE /\ tenants' = tenants \cup {BootstrapTenant}
                 /\ apiKeys' = apiKeys \cup {created}
                 /\ KeyAnswer("bootstrapInitialAdmin", << >>, in,
                              [kind |-> "ok", created |-> TRUE,
                               tenantId |-> <<BootstrapTenant>>,
                               apiKeyId |-> <<created.id>>])

\* ApiKeyRepository.listApiKeys: the keys of the tenant in (createdAt, id)
\* order.
listApiKeys(rows, tenantId) ==
  LET ordered == orderByCreatedAtId({k \in rows : k.tenantId = tenantId})
  IN [i \in 1..Len(ordered) |-> toApiKeyListItem(ordered[i])]

\* listApiKeys(actor).
ListApiKeys(actor) ==
  /\ lastKey.op # "listApiKeys"
  /\ KeyAnswer("listApiKeys", <<actor>>, actor.tenantId,
               IF actor.role # "ADMIN"
                 THEN keyError(ForbiddenError("Admin API key is required"))
                 ELSE [kind |-> "ok", data |-> listApiKeys(apiKeys, actor.tenantId)])
  /\ UNCHANGED <<tenants, apiKeys, clock>>

\* A key store provisioned for the tenants of the ledger: an ADMIN key of tA
\* and a SERVICE key of tB.
SeededKeys ==
  {[id |-> 1, tenantId |-> "tA", name |-> Text("admin", FALSE, FALSE), role |-> "ADMIN",
    keyHash |-> hashApiKey(Text("key_a", FALSE, FALSE)), createdAt |-> 0,
    revokedAt |-> << >>],
   [id |-> 2, tenantId |-> "tB", name |-> Text("service", FALSE, FALSE), role |-> "SERVICE",
    keyHash |-> hashApiKey(Text("key_b", FALSE, FALSE)), createdAt |-> 0,
    revokedAt |-> << >>]}

\* The key store is empty or provisioned.
KeyInit ==
  /\ InitTables
  /\ apiKeys \in {{}, SeededKeys}

\* The AuthContext of every stored key: what authenticate has returned for it
\* at some time.
Actors ==
  {[apiKeyId |-> k.id, tenantId |-> k.tenantId, role |-> k.role] : k \in apiKeys}

\* Raw keys clients send: nothing, whitespace only, the admin key an operator
\* chose and the generated keys, each bare and with whitespace around it.
RawApiKeys ==
  {EmptyText, Text("", TRUE, FALSE)}
  \cup {Text(t, ws, ws) : t \in {"adm", "llk_1", "llk_2"}, ws \in BOOLEAN}
  \cup {Text(t, FALSE, FALSE) : t \in {"key_a", "key_b"}}

BootstrapInputs ==
  {[tenantName |-> Text("acme", FALSE, FALSE), keyName |-> Text(n, FALSE, FALSE),
    rawApiKey |-> Text(k, ws, ws)] :
     n \in {"root", ""}, k \in {"adm", ""}, ws \in BOOLEAN}

CreateApiKeyInputs ==
  {[tenantId |-> t, name |-> Text(n, FALSE, TRUE), role |-> r] :
     t \in {"tA", BootstrapTenant}, n \in {"ops", ""}, r \in ApiKeyRoles \cup {"OWNER"}}

\* Key ids a caller names; UnknownKeyId names no row.
KeyIds == 1..(Cardinality(SeededKeys) + MaxKeyCalls)
UnknownKeyId == Cardinality(SeededKeys) + MaxKeyCalls + 1

KeyNext ==
  \/ \E rawApiKey \in RawApiKeys : Authenticate(rawApiKey)
  \/ \E actor \in Actors : \E in \in CreateApiKeyInputs : \E generated \in GeneratedKeys :
       CreateApiKey(actor, in, generated)
  \/ \E actor \in Actors : \E apiKeyId \in KeyIds \cup {UnknownKeyId} :
       RevokeApiKey(actor, apiKeyId)
  \/ \E in \in BootstrapInputs : BootstrapInitialAdmin(in)
  \/ \E actor \in Actors : ListApiKeys(actor)

KeySpec == KeyInit /\ [][KeyNext]_vars

\* ------------------------------------------- concurrent bootstrap

\* The id createTenant gives a new tenant: defaultRandom(), an id no row has.
newTenantId(tenantIds) == IF BootstrapTenant \in tenantIds THEN "tD" ELSE BootstrapTenant

\* bootstrapInitialAdmin(in) is called by p: the three assertNonEmpty checks.
BootstrapCall(p, in) ==
  /\ pc[p] = "idle"
  /\ clock' = clock + 1
  /\ input' = [input EXCEPT ![p] = in]
  /\ IF bootstrapError(in) # << >>
       THEN /\ result' = [result EXCEPT ![p] = keyError(bootstrapError(in)[1])]
            /\ pc' = [pc EXCEPT ![p] = "done"]
       ELSE /\ result' = result
            /\ pc' = [pc EXCEPT ![p] = "countApiKeys"]
  /\ UNCHANGED <<ledgers, accounts, transactions, entries, rowLock, dirty, work, snap,
                 nextId, lastRead, tenants, apiKeys, lastKey, lastHttp, pool, cancelled>>

\* const existingKeys = await this.repository.countApiKeys(); a store that
\* holds a key ends the call with created: false.
BootstrapCount(p) ==
  /\ pc[p] = "countApiKeys"
  /\ IF countApiKeys(apiKeys) > 0
       THEN /\ result' = [result EXCEPT ![p] =
                 [kind |-> "ok", created |-> FALSE, tenantId |-> << >>,
                  apiKeyId |-> << >>]]
            /\ pc' = [pc EXCEPT ![p] = "done"]
       ELSE /\ result' = result
            /\ pc' = [pc EXCEPT ![p] = "createTenant"]
  /\ UNCHANGED <<ledgers, accounts, transactions, entries, rowLock, dirty, input, work,
                 snap, nextId, clock, lastRead, tenants, apiKeys, lastKey, lastHttp, pool,
                 cancelled>>

\* const tenant = await this.repository.createTenant(...): the insert commits
\* by itself; work[p].txRow holds the row it returned.
BootstrapCreateTenant(p) ==
  /\ pc[p] = "createTenant"
  /\ tenants' = tenants \cup {newTenantId(tenants)}
  /\ work' = [work EXCEPT ![p] =
       [NoWork EXCEPT !.txRow = <<[id |-> newTenantId(tenants),
                                   name |-> trim(input[p].tenantName)]>>]]
  /\ pc' = [pc EXCEPT ![p] = "createApiKey"]
  /\ UNCHANGED <<ledgers, accounts, transactions, entries, rowLock, dirty, input, result,
                 snap, nextId, clock, lastRead, apiKeys, lastKey, lastHttp, pool,
                 cancelled>>

\* const created = await this.repository.createApiKey(...), in a database
\* transaction of its own; the call returns created: true, or throws what the
\* insert threw.
BootstrapCreateApiKey(p) ==
  /\ pc[p] = "createApiKey"
  /\ LET values == [tenantId |-> work[p].txRow[1].id, name |-> trim(input[p].keyName),
                    role |-> "ADMIN", keyHash |-> hashApiKey(input[p].rawApiKey)]
         failed == apiKeyInsertError(apiKeys, tenants, values)
         created == apiKeyRow(apiKeys, values, clock)
     IN IF failed # << >>
          THEN /\ apiKeys' = apiKeys
               /\ result' = [result EXCEPT ![p] =
                    handleDatabaseError(failed[1], "create api key")]
          ELSE /\ apiKeys' = apiKeys \cup {created}
               /\ result' = [result EXCEPT ![p] =
                    [kind |-> "ok", created |-> TRUE, tenantId |-> <<values.tenantId>>,
                     apiKeyId |-> <<created.id>>]]
  /\ work' = [work EXCEPT ![p] = NoWork]
  /\ pc' = [pc EXCEPT ![p] = "done"]
  /\ UNCHANGED <<ledgers, accounts, transactions, entries, rowLock, dirty, input, snap,
                 nextId, clock, lastRead, tenants, lastKey, lastHttp, pool, cancelled>>

\* The inputs of the callers of bootstrap: one tenant name and key name, the
\* admin key an operator chose or another one, or no key.
ConcurrentBootstrapInputs ==
  {[tenantName |-> Text("acme", FALSE, FALSE), keyName |-> Text("root", FALSE, FALSE),
    rawApiKey |-> Text(k, FALSE, FALSE)] : k \in {"adm", "llk_1", ""}}

\* Two callers of bootstrapInitialAdmin, one call each, their statements
\* interleaved; the key store starts empty.
BootstrapNext ==
  \E p \in {1, 2} :
    \/ \E in \in ConcurrentBootstrapInputs : BootstrapCall(p, in)
    \/ BootstrapCount(p)
    \/ BootstrapCreateTenant(p)
    \/ BootstrapCreateApiKey(p)

BootstrapSpec == Init /\ [][BootstrapNext]_vars

\* ------------------------------------------------------- every table

\* Every operation that writes a table: the postings of the handlers, and
\* after them the administration of keys (a key is created or revoked, the
\* first admin is bootstrapped), which writes no table a posting reads.
WriteNext ==
  \/ Next
  \/ /\ clock >= MaxCalls
     /\ \A p \in Procs : pc[p] \in {"idle", "done"}
     /\ \/ \E actor \in Actors : \E in \in CreateApiKeyInputs : \E generated \in GeneratedKeys :
             CreateApiKey(actor, in, generated)
        \/ \E actor \in Actors : \E apiKeyId \in KeyIds : RevokeApiKey(actor, apiKeyId)
        \/ \E in \in BootstrapInputs : BootstrapInitialAdmin(in)

WriteSpec == KeyInit /\ [][WriteNext]_vars

\* ------------------------------------------------------- cancellation

\* The client of handler p gives up its request while postTransaction is in
\* flight.  postTransaction takes its input only and db.transaction no signal:
\* no statement of the handler is told, and the handler goes on.
Cancel(p) ==
  /\ pc[p] \notin {"idle", "done"}
  /\ work[p].now \notin cancelled
  /\ cancelled' = cancelled \cup {work[p].now}
  /\ UNCHANGED <<ledgers, accounts, transactions, entries, rowLock, dirty, pc, input,
                 work, result, snap, nextId, clock, lastRead, tenants, apiKeys, lastKey,
                 lastHttp, pool>>

CancelNext ==
  \/ Next
  \/ \E p \in Procs : Cancel(p)

CancelSpec == Init /\ [][CancelNext]_vars

\* ------------------------------------------------------- caught errors

\* An error of the driver that wraps its cause and has no code of its own.
Wrapped(cause) ==
  [domain |-> FALSE, kind |-> "", message |-> "", code |-> "", cause |-> cause]

\* SQLSTATE codes the database answers with: the seven of
\* CONSTRAINT_VIOLATION_CODES, numeric_value_out_of_range,
\* serialization_failure, deadlock_detected, connection_failure and
\* query_canceled.
SqlStates ==
  {"22001", "22007", "22P02", "23502", "23503", "23505", "23514",
   "22003", "40001", "40P01", "08006", "57014"}

\* Errors a try block of the repository catches: domain errors thrown inside
\* the operation, database errors bare or wrapped by the driver, once or
\* twice, and errors without any code.
CaughtErrors ==
  {DomainError(k, "thrown inside") :
     k \in {"INVARIANT_VIOLATION", "LEDGER_NOT_FOUND", "UNAUTHORIZED", "FORBIDDEN"}}
  \cup {DatabaseError(c) : c \in SqlStates \cup {""}}
  \cup {Wrapped(DatabaseError(c)) : c \in SqlStates \cup {""}}
  \cup {Wrapped(Wrapped(DatabaseError(c))) : c \in {"23505", "22003"}}

\* The operation names the repository methods pass to handleDatabaseError.
Operations ==
  {"count api keys", "create tenant", "find api key by hash", "create api key",
   "list api keys", "revoke api key", "create ledger", "find ledger by id for tenant",
   "find ledgers by tenant", "post transaction", "list accounts", "list transactions",
   "list entries", "get trial balance"}

\* The catch block of a repository method: handleDatabaseError throws.
Catch(error, operation) ==
  /\ lastRead = NoRead
  /\ lastRead' = [op |-> operation, query |-> <<error>>,
                  outcome |-> handleDatabaseError(error, operation)]
  /\ UNCHANGED keyVars
  /\ UNCHANGED <<ledgers, accounts, transactions, entries, rowLock, dirty, pc, input,
                 work, result, snap, nextId, clock>>

ErrorNext == \E error \in CaughtErrors : \E operation \in Operations : Catch(error, operation)

ErrorSpec == Init /\ [][ErrorNext]_vars

\* ------------------------------------------------------------ HTTP boundary

\* request.url is the path as the client sent it, a sequence of segments; a
\* segment is escaped when the client percent-encoded one of its letters
\* (/%761/ledgers for /v1/ledgers).
Segment(text, escaped) == [text |-> text, escaped |-> escaped]

\* The path the router looks up: the percent-encoded letters decoded.
decodeURI(url) == [i \in 1..Len(url) |-> Segment(url[i].text, FALSE)]

\* request.url.startsWith('/a/b/'): the text of the url begins with these
\* segments, written as they are, and a slash after them.
startsWith(url, prefix) ==
  /\ Len(url) > Len(prefix)
  /\ \A i \in 1..Len(prefix) : url[i] = Segment(prefix[i], FALSE)

\* The routes of the server, by the segments of their paths.
Routes ==
  {<<"health">>, <<"ready">>, <<"v1", "ledgers">>, <<"v1", "admin", "api-keys">>}

\* The route a url is dispatched to, if any.
routeOf(url) ==
  LET path == [i \in 1..Len(url) |-> decodeURI(url)[i].text]
  IN IF path \in Routes THEN <<path>> ELSE << >>

\* The API key of a request: the x-api-key header when it is present, else the
\* trimmed token of an Authorization: Bearer header, else null.
apiKeyOf(request) ==
  IF request.credential = << >> THEN << >>
  ELSE IF request.credential[1].header = "x-api-key" THEN <<request.credential[1].value>>
  ELSE <<trim(request.credential[1].value)>>

\* The onRequest hook: what it throws, if anything, and the AuthContext it
\* stores on the request.
onRequest(rows, request) ==
  IF ~startsWith(request.url, <<"v1">>) THEN [error |-> << >>, auth |-> << >>]
  ELSE IF apiKeyOf(request) \in {<< >>, <<EmptyText>>}
    THEN [error |-> <<UnauthorizedError("API key is required")>>, auth |-> << >>]
  ELSE LET auth == authenticate(rows, apiKeyOf(request)[1]) IN
       IF auth.kind # "ok" THEN [error |-> <<auth>>, auth |-> << >>]
       ELSE IF startsWith(request.url, <<"v1", "admin">>) /\ auth.context.role # "ADMIN"
         THEN [error |-> <<ForbiddenError("Admin API key is required")>>,
               auth |-> <<auth.context>>]
       ELSE [error |-> << >>, auth |-> <<auth.context>>]

\* sendDomainError: the HTTP status of a domain error.
statusOf(kind) ==
  CASE kind = "UNAUTHORIZED" -> 401
    [] kind = "FORBIDDEN" -> 403
    [] kind = "LEDGER_NOT_FOUND" -> 404
    [] kind = "INVARIANT_VIOLATION" -> 400
    [] OTHER -> 500

\* The status a route handler answers with, given the AuthContext the hook
\* stored, if any.  GET /v1/ledgers needs a tenant; GET /v1/admin/api-keys
\* asks listApiKeys, which wants an ADMIN.
handlerStatus(route, auth, ready) ==
  CASE route = <<"health">> -> 200
    [] route = <<"ready">> -> IF ready THEN 200 ELSE 503
    [] route = <<"v1", "ledgers">> ->
         IF auth = << >> THEN statusOf("INVARIANT_VIOLATION") ELSE 200
    [] route = <<"v1", "admin", "api-keys">> ->
         IF auth = << >> \/ auth[1].role # "ADMIN" THEN statusOf("FORBIDDEN") ELSE 200

\* The answer to a request: the hook runs, then the router dispatches to the
\* handler of the route, which reads request.tenantId.
respond(rows, request, ready) ==
  LET hook == onRequest(rows, request)
      route == routeOf(request.url)
  IN IF hook.error # << >>
       THEN [request |-> <<request>>, handler |-> "none", authenticated |-> hook.auth # << >>,
             tenantId |-> << >>, status |-> statusOf(hook.error[1].kind)]
     ELSE IF route = << >>
       THEN [request |-> <<request>>, handler |-> "none", authenticated |-> hook.auth # << >>,
             tenantId |-> << >>, status |-> 404]
     ELSE [request |-> <<request>>, handler |-> route[1][Len(route[1])],
           authenticated |-> hook.auth # << >>,
           tenantId |-> IF hook.auth = << >> THEN << >> ELSE <<hook.auth[1].tenantId>>,
           status |-> handlerStatus(route[1], hook.auth, ready)]

\* A request is answered; the routes modelled read and change nothing.
HttpRequest(request, ready) ==
  /\ lastHttp' = respond(apiKeys, request, ready)
  /\ lastHttp' # lastHttp
  /\ UNCHANGED <<ledgers, accounts, transactions, entries, rowLock, dirty, pc, input,
                 work, result, snap, nextId, clock, lastRead, tenants, apiKeys, lastKey,
                 pool, cancelled>>

\* Paths clients ask for: the routes, a path of no route, each with its first
\* or second segment plain or escaped.
HttpUrls ==
  {<<Segment("health", FALSE)>>, <<Segment("ready", FALSE)>>}
  \cup {<<Segment("v1", e), Segment(t, FALSE)>> : e \in BOOLEAN, t \in {"ledgers", "nothing"}}
  \cup {<<Segment("v1", e1), Segment("admin", e2), Segment("api-keys", FALSE)>> :
          e1 \in BOOLEAN, e2 \in BOOLEAN}

\* Credentials clients send: none, an x-api-key header or a Bearer token with
\* a key of the provisioned store, an unknown key or whitespace.
HttpCredentials ==
  {<< >>}
  \cup {<<[header |-> h, value |-> Text(t, FALSE, FALSE)]>> :
          h \in {"x-api-key", "authorization"}, t \in {"key_a", "key_b", "llk_1"}}
  \cup {<<[header |-> "x-api-key", value |-> Text("", TRUE, FALSE)]>>,
        <<[header |-> "authorization", value |-> Text("key_a", TRUE, TRUE)]>>}

HttpRequests == {[url |-> u, credential |-> c] : u \in HttpUrls, c \in HttpCredentials}

\* Requests are answered while keys are revoked.
HttpNext ==
  \/ \E request \in HttpRequests : \E ready \in BOOLEAN : HttpRequest(request, ready)
  \/ \E actor \in Actors : \E apiKeyId \in KeyIds : RevokeApiKey(actor, apiKeyId)

HttpSpec == KeyInit /\ [][HttpNext]_vars

\* ------------------------------------------------------------ tenant binding

\* current_setting('app.tenant_id') on a connection: the value of the
\* transaction if it set one, else the value of the session.
current_setting(settings) ==
  IF settings.local # << >> THEN settings.local ELSE settings.session

\* set_config that sets the value for the session, whatever is_local says.
setConfigOfSession(settings, value, isLocal) ==
  [settings EXCEPT !.session = <<value>>]

\* select set_config('app.tenant_id', value, is_local): the settings after it.
set_config(settings, value, isLocal) ==
  IF isLocal THEN [settings EXCEPT !.local = <<value>>]
  ELSE [settings EXCEPT !.session = <<value>>]

\* The repository operations on ledgers, accounts, transactions and entries,
\* each with the number of statements it runs after the binding, at most.
LedgerOperations ==
  {<<"createLedger", 1>>, <<"findLedgerByIdForTenant", 1>>, <<"findLedgersByTenant", 1>>,
   <<"postTransaction", 4>>, <<"listAccounts", 1>>, <<"listTransactions", 1>>,
   <<"listEntries", 1>>, <<"getTrialBalance", 2>>}

\* db.transaction: the operation takes a connection of the pool no transaction
\* holds and begins its transaction on it.
BeginTransaction(c, name, statements, tenantId) ==
  /\ pool[c].op = << >>
  /\ pool' = [pool EXCEPT ![c] =
       [@ EXCEPT !.op = <<[name |-> name, tenantId |-> tenantId, last |-> statements + 1]>>,
                 !.statements = 0, !.observed = << >>]]
  /\ UNCHANGED <<ledgers, accounts, transactions, entries, rowLock, dirty, pc, input,
                 work, result, snap, nextId, clock, lastRead, tenants, apiKeys, lastKey,
                 lastHttp, cancelled>>

\* The next statement of the transaction on connection c.  Its first is
\* select set_config('app.tenant_id', tenantId, true); a later one reads or
\* writes rows under the policies, which compare tenant_id with
\* current_setting('app.tenant_id').
ExecuteStatement(c) ==
  /\ pool[c].op # << >>
  /\ pool[c].statements < pool[c].op[1].last
  /\ pool' = [pool EXCEPT ![c] =
       IF @.statements = 0
         THEN [@ EXCEPT !.statements = 1,
                        !.settings = set_config(@, pool[c].op[1].tenantId, TRUE)]
         ELSE [@ EXCEPT !.statements = @ + 1,
                        !.observed = current_setting(pool[c].settings)]]
  /\ UNCHANGED <<ledgers, accounts, transactions, entries, rowLock, dirty, pc, input,
                 work, result, snap, nextId, clock, lastRead, tenants, apiKeys, lastKey,
                 lastHttp, cancelled>>

\* The transaction on connection c ends, committed or rolled back after an
\* error of any of its statements: what it set for itself is dropped and the
\* connection goes back to the pool.
EndTransaction(c) ==
  /\ pool[c].op # << >>
  /\ pool' = [pool EXCEPT ![c] =
       [@ EXCEPT !.op = << >>, !.statements = 0, !.observed = << >>,
                 !.settings = [@ EXCEPT !.local = << >>]]]
  /\ UNCHANGED <<ledgers, accounts, transactions, entries, rowLock, dirty, pc, input,
                 work, result, snap, nextId, clock, lastRead, tenants, apiKeys, lastKey,
                 lastHttp, cancelled>>

PoolNext ==
  \/ \E c \in Connections : \E o \in LedgerOperations : \E tenantId \in Tenants :
       BeginTransaction(c, o[1], o[2], tenantId)
  \/ \E c \in Connections : ExecuteStatement(c)
  \/ \E c \in Connections : EndTransaction(c)

PoolSpec == Init /\ [][PoolNext]_vars

\* ------------------------------------------------- core/postings.ts

\* A JavaScript number holds every integer up to 2^53 and beyond it one
\* integer in 2, then one in 4; MaxSafeInteger stands for 2^53.
MaxSafeInteger == 2 ^ MantissaBits

\* The distance between the numbers next to the integer x >= 0.
RECURSIVE spacing(_)
spacing(x) == IF x <= MaxSafeInteger THEN 1 ELSE 2 * spacing((x + 1) \div 2)

\* The number nearest to the integer x >= 0, the even one of two at the same
\* distance.
toNumber(x) ==
  LET sp == spacing(x)
      lo == (x \div sp) * sp
      r == x - lo
  IN IF r = 0 THEN x
     ELSE IF 2 * r < sp THEN lo
     ELSE IF 2 * r > sp THEN lo + sp
     ELSE IF (lo \div sp) % 2 = 0 THEN lo ELSE lo + sp

\* a + b of two numbers that hold integers >= 0.
plus(a, b) == toNumber(a + b)

Posting(accountId, direction, amount, currency) ==
  [accountId |-> accountId, direction |-> direction, amount |-> amount,
   currency |-> currency]

\* accountsById.get(accountId): the last account of the list with this id,
\* if any.
accountById(accts, accountId) ==
  LET at == {i \in 1..Len(accts) : accts[i].id = accountId} IN
  IF at = {} THEN << >> ELSE <<accts[CHOOSE i \in at : \A j \in at : j <= i]>>

\* The message of the first assert of the loop body that fails for a posting,
\* "" if none fails.
postingFailure(txInput, accts, posting) ==
  LET found == accountById(accts, posting.accountId) IN
  IF posting.direction \notin {"DEBIT", "CREDIT"}
    THEN "posting direction must be DEBIT or CREDIT"
  ELSE IF posting.amount = 0 THEN "no zero entries"
  ELSE IF ~(posting.amount > 0) THEN "amount must be greater than 0"
  ELSE IF posting.currency # txInput.currency THEN "currency must match"
  ELSE IF found = << >> THEN "account not found: " \o posting.accountId
  ELSE IF found[1].currency # txInput.currency THEN "currency must match"
  ELSE IF found[1].ledgerId # txInput.ledgerId THEN "account must belong to same ledger"
  ELSE ""

\* The loop of createTransaction from posting i on, with the totals so far:
\* the message of the assert that fails, "" if none does.
RECURSIVE checkPostings(_, _, _, _, _)
checkPostings(txInput, accts, i, debitTotal, creditTotal) ==
  IF i > Len(txInput.postings)
    THEN IF debitTotal # creditTotal THEN "total debits must equal total credits" ELSE ""
  ELSE LET posting == txInput.postings[i]
           failure == postingFailure(txInput, accts, posting)
       IN IF failure # "" THEN failure
          ELSE IF posting.direction = "DEBIT"
            THEN checkPostings(txInput, accts, i + 1,
                               plus(debitTotal, posting.amount), creditTotal)
            ELSE checkPostings(txInput, accts, i + 1,
                               debitTotal, plus(creditTotal, posting.amount))

\* createTransaction(input, accounts): the transaction, or the
\* InvariantViolationError it throws.
createTransaction(txInput, accts) ==
  LET failure == IF Len(txInput.postings) < 2
                   THEN "transaction must have at least 2 entries"
                   ELSE checkPostings(txInput, accts, 1, 0, 0)
  IN IF failure # ""
       THEN [kind |-> "INVARIANT_VIOLATION", message |-> failure]
       ELSE [kind |-> "ok",
             transaction |-> [id |-> txInput.id, ledgerId |-> txInput.ledgerId,
                              currency |-> txInput.currency, postings |-> txInput.postings]]

\* createTransaction is called; a second call gives the state it gives in
\* the place of the first.
CreateTransaction(txInput, accts) ==
  /\ lastRead = NoRead
  /\ lastRead' = [op |-> "createTransaction", query |-> <<txInput, accts>>,
                  outcome |-> createTransaction(txInput, accts)]
  /\ UNCHANGED keyVars
  /\ UNCHANGED <<ledgers, accounts, transactions, entries, rowLock, dirty, pc, input,
                 work, result, snap, nextId, clock>>

\* The accounts given to createTransaction: two USD accts and a EUR
\* account of ledger-1 and a USD account of ledger-2, or none.
AccountLists ==
  {<<[id |-> "a1", ledgerId |-> "ledger-1", currency |-> "USD"],
     [id |-> "a2", ledgerId |-> "ledger-1", currency |-> "USD"],
     [id |-> "a3", ledgerId |-> "ledger-1", currency |-> "EUR"],
     [id |-> "a4", ledgerId |-> "ledger-2", currency |-> "USD"]>>,
   << >>}

\* Postings of a USD transaction of ledger-1: sound ones of 1 and of
\* MaxSafeInteger, and one for each check to fail.
Postings ==
  {Posting("a1", "DEBIT", m, "USD") : m \in {1, MaxSafeInteger, 0, -1}}
  \cup {Posting("a2", "CREDIT", m, "USD") : m \in {1, MaxSafeInteger}}
  \cup {Posting("a1", "debit", 1, "USD"), Posting("a1", "DEBIT", 1, "EUR"),
        Posting("a9", "DEBIT", 1, "USD"), Posting("a3", "CREDIT", 1, "USD"),
        Posting("a4", "CREDIT", 1, "USD")}

PostingLists ==
  UNION {[1..n -> Postings] : n \in 0..MaxPostings}

CreateTransactionInputs ==
  {[id |-> "tx-1", ledgerId |-> "ledger-1", currency |-> "USD", postings |-> ps] :
     ps \in PostingLists}

PostingsNext ==
  \E in \in CreateTransactionInputs : \E given \in AccountLists : CreateTransaction(in, given)

PostingsSpec == Init /\ [][PostingsNext]_vars

\* ------------------------------------------------ properties: vocabulary

\* The committed entries of a transaction.
entriesOf(tbl, transactionId) == {e \in tbl : e.transactionId = transactionId}

\* Sum over the entry rows es of amountMinor for direction dir.
totalOf(es, dir) ==
  SumSet(es, [e \in es |-> IF e.direction = dir THEN e.amountMinor ELSE 0])

\* Sum over the entry rows es of +amountMinor for CREDIT, -amountMinor for DEBIT.
contributions(es) ==
  SumSet(es, [e \in es |-> IF e.direction = "CREDIT" THEN e.amountMinor
                           ELSE -e.amountMinor])

\* The posting names an existing ledger and accounts of its tenant, ledger and
\* currency.
accountsMatch(in) ==
  /\ in.ledgerId \in {l.id : l \in InitLedgers}
  /\ \A i \in 1..Len(in.entries) : accountMatches(InitAccounts, in.entries[i].accountId, in)

RECURSIVE fitsFrom(_, _)
\* Adding the signed amounts of es one by one to the balances bal never leaves
\* the bigint range.
fitsFrom(es, bal) ==
  IF es = << >> THEN TRUE
  ELSE LET a == Head(es).accountId
           n == bal[a] + (IF Head(es).direction = "CREDIT" THEN Head(es).amountMinor
                          ELSE -Head(es).amountMinor)
       IN -BigintMax - 1 <= n /\ n <= BigintMax
          /\ fitsFrom(Tail(es), [bal EXCEPT ![a] = n])

\* The posting, applied to the accounts table tbl, keeps every balance in range.
fits(in, tbl) ==
  fitsFrom(sortByAccountId(in.entries), [a \in AccountIds |-> tbl[a].balanceMinor])

keyOf(in) == <<in.tenantId, in.reference>>

\* ------------------------------------------------------------- C1

\* C1: sequential calls with one (tenantId, reference) and a balanced payload
\* persist exactly one transaction row.  A call that starts when no row has the
\* key and whose posting the accounts accept returns created=true and its row
\* is the one row of the key; every call that starts when a row has the key
\* returns created=false with that row's id and leaves transactions, entries
\* and accounts as they were when it started.
C1_SequentialIdempotency ==
  /\ \A t1, t2 \in transactions :
       (t1.tenantId = t2.tenantId /\ t1.reference = t2.reference) => t1 = t2
  /\ (pc[1] = "done" /\ assertBalancedEntries(input[1].entries) = "ok") =>
       LET before == findByReference(snap[1].transactions, input[1].tenantId,
                                     input[1].reference)
           now == findByReference(transactions, input[1].tenantId, input[1].reference)
       IN /\ before # {} =>
               /\ result[1].kind = "ok"
               /\ ~result[1].created
               /\ \A t \in before : result[1].transactionId = t.id
               /\ committed = snap[1]
          /\ (before = {} /\ accountsMatch(input[1]) /\ fits(input[1], snap[1].accounts)) =>
               /\ result[1].kind = "ok"
               /\ result[1].created
               /\ Cardinality(now) = 1
               /\ \A t \in now : t.id = result[1].transactionId

\* A retry has returned created=false with the id of the committed row.
C1_Witness ==
  /\ pc[1] = "done"
  /\ result[1].kind = "ok" /\ ~result[1].created
  /\ \E t \in snap[1].transactions : t.id = result[1].transactionId
  /\ entries # {}

\* ------------------------------------------------------------- C3

\* C3: every persisted transaction has at least 2 persisted entries, and the
\* amounts of its DEBIT entries sum to the amounts of its CREDIT entries.
C3_TransactionsBalanced ==
  \A t \in transactions :
    LET es == entriesOf(entries, t.id) IN
    /\ Cardinality(es) >= 2
    /\ totalOf(es, "DEBIT") = totalOf(es, "CREDIT")

\* A transaction of three entries is persisted.
C3_Witness ==
  \E t \in transactions : Cardinality(entriesOf(entries, t.id)) = 3

\* ------------------------------------------------------------- C5

\* C5: a call that failed, at whichever step, left the database as it was
\* before the call: the transactions, entries and accounts tables are those of
\* the call's start, and no row lock or uncommitted row of the call remains.
C5_FailureLeavesNoTrace ==
  (pc[1] = "done" /\ result[1].kind # "ok") =>
    /\ committed = snap[1]
    /\ \A a \in AccountIds : rowLock[a] = NoProc
    /\ work[1] = NoWork

\* A call failed at a balance update after an earlier update of the same
\* database transaction had been applied.
C5_Witness ==
  /\ pc[1] = "done"
  /\ result[1].kind # "ok"
  /\ result[1].applied >= 1

\* ------------------------------------------------------------- C6

\* The entry currencies, the account currencies and the account ledgers are
\* those of the transaction.
currenciesAndLedgersMatch(in) ==
  /\ \A i \in 1..Len(in.entries) : in.entries[i].currency = in.currency
  /\ accountsMatch(in)

\* C6: with a fresh reference, postTransaction returns created=true for every
\* list of at least 2 entries with equal DEBIT and CREDIT sums whose currencies
\* and ledger assignments match the transaction (and whose balances stay in
\* range), and fails with INVARIANT_VIOLATION when there are fewer than 2
\* entries, the sums differ, or a currency or ledger assignment does not match.
C6_AcceptedIffBalancedAndMatching ==
  (/\ pc[1] = "done"
   /\ findByReference(snap[1].transactions, input[1].tenantId, input[1].reference) = {})
  =>
    LET in == input[1]
        wellFormed == /\ Len(in.entries) >= 2
                      /\ SumOf(in.entries, "DEBIT") = SumOf(in.entries, "CREDIT")
                      /\ currenciesAndLedgersMatch(in)
    IN /\ (wellFormed /\ fits(in, snap[1].accounts)) =>
            (result[1].kind = "ok" /\ result[1].created)
       /\ ~wellFormed => result[1].kind = "INVARIANT_VIOLATION"

\* ------------------------------------------------------------- C2

\* The calls of p and q carry one (tenantId, reference) that no committed row
\* held when either of them started.
racing(p, q) ==
  /\ p # q
  /\ pc[p] = "done" /\ pc[q] = "done"
  /\ keyOf(input[p]) = keyOf(input[q])
  /\ findByReference(snap[p].transactions, input[p].tenantId, input[p].reference) = {}
  /\ findByReference(snap[q].transactions, input[q].tenantId, input[q].reference) = {}

\* C2: two concurrent calls with one (tenantId, reference) never persist two
\* rows for it and never both return created=true; when both have returned,
\* both returned the same transactionId, the one row of the key has that id,
\* and the accounts hold exactly the committed entries' contributions; when
\* they are the only two calls made, exactly one returned created=true and the
\* persisted entries of the key are the entries of that call.
C2_ConcurrentSameReference ==
  \A p, q \in Procs :
    racing(p, q) =>
      LET rows == findByReference(transactions, input[p].tenantId, input[p].reference) IN
      /\ Cardinality(rows) <= 1
      /\ ~(result[p].created /\ result[q].created)
      /\ (result[p].kind = "ok" /\ result[q].kind = "ok") =>
           /\ result[p].transactionId = result[q].transactionId
           /\ \A t \in rows : t.id = result[p].transactionId
           /\ Cardinality(rows) = 1
           /\ clock = 2 =>
                /\ result[p].created # result[q].created
                /\ LET w == IF result[p].created THEN p ELSE q
                       t == CHOOSE t \in rows : TRUE
                   IN entriesOf(entries, t.id) = entryRows(input[w], t.id, t.createdAt)
           /\ (\A r \in Procs : pc[r] \in {"idle", "done"}) =>
                \A a \in AccountIds :
                  accounts[a].balanceMinor
                    = contributions({e \in entries : e.accountId = a})

\* Both calls started before the row was committed; one created it and the
\* other returned created=false with its id.
C2_Witness ==
  \E p, q \in Procs :
    /\ racing(p, q)
    /\ result[p].kind = "ok" /\ result[p].created
    /\ result[q].kind = "ok" /\ ~result[q].created
    /\ result[q].transactionId = result[p].transactionId

\* ------------------------------------------------------------- C4

\* C4: at every commit boundary each account's balanceMinor is the sum over
\* its committed entries of +amountMinor for CREDIT and -amountMinor for DEBIT
\* (all accounts start at 0).
C4_BalanceLaw ==
  \A a \in AccountIds :
    accounts[a].balanceMinor = contributions({e \in entries : e.accountId = a})

\* An account holds the committed entries of two transactions.
C4_Witness ==
  \E a \in AccountIds :
    \E e1, e2 \in entries :
      /\ e1.accountId = a /\ e2.accountId = a
      /\ e1.transactionId # e2.transactionId

\* ------------------------------------------------------------- C9

\* p waits for q: p's INSERT waits for q's uncommitted row of the same key, or
\* p's UPDATE waits for a row lock q holds.
waitsFor(p, q) ==
  \/ pc[p] = "insertTransaction" /\ q \in insertWaitsFor(p)
  \/ pc[p] = "updateAccount" /\ q \in updateWaitsFor(p)

RECURSIVE reaches(_, _, _)
\* q is reached from p along at most n wait-for edges (n >= 1).
reaches(p, q, n) ==
  \/ waitsFor(p, q)
  \/ n > 1 /\ \E r \in Procs : waitsFor(p, r) /\ reaches(r, q, n - 1)

\* C9: no set of concurrent calls deadlocks: no handler waits, directly or
\* through other waiting handlers, for itself.
C9_NoDeadlock ==
  \A p \in Procs : ~reaches(p, p, NumProcs)

\* A handler waits for a row lock while it holds one itself: the two postings
\* overlap in two accounts.
C9_Witness ==
  \E p, q \in Procs :
    /\ pc[p] = "updateAccount" /\ q \in updateWaitsFor(p)
    /\ \E a \in AccountIds : rowLock[a] = p
    /\ \E a \in AccountIds : rowLock[a] = q

\* ------------------------------------------------------------ C10

\* The signed amounts the entries of input in add to account a.
postedTo(in, a) ==
  SumSet({i \in 1..Len(in.entries) : in.entries[i].accountId = a},
         [i \in 1..Len(in.entries) |->
            IF in.entries[i].direction = "CREDIT" THEN in.entries[i].amountMinor
            ELSE -in.entries[i].amountMinor])

\* C10: no update is lost: when every call has finished (each handler made one
\* call), every account's balance is its initial balance 0 plus the deltas of
\* exactly the calls that committed.
C10_NoLostUpdate ==
  (/\ \A p \in Procs : pc[p] \in {"idle", "done"}
   /\ Cardinality({p \in Procs : pc[p] = "done"}) = clock)
  =>
    \A a \in AccountIds :
      accounts[a].balanceMinor
        = SumSet({p \in Procs : pc[p] = "done" /\ result[p].created},
                 [p \in Procs |-> postedTo(input[p], a)])

\* Two calls that both started before either committed have both committed an
\* update of one account.
C10_Witness ==
  \E p, q \in Procs :
    /\ p # q
    /\ pc[p] = "done" /\ pc[q] = "done"
    /\ result[p].created /\ result[q].created
    /\ snap[p].transactions = {} /\ snap[q].transactions = {}
    /\ \E i \in 1..Len(input[p].entries), j \in 1..Len(input[q].entries) :
         input[p].entries[i].accountId = input[q].entries[j].accountId

\* ------------------------------------------------------------- C7

\* C7: whatever postings are in flight, getTrialBalance on a ledger the tenant
\* owns succeeds with totalDebitsMinor equal to totalCreditsMinor; it never
\* fails with 'trial balance totals mismatch'.
C7_TrialBalanceTotalsMatch ==
  (/\ lastRead.op = "getTrialBalance"
   /\ \E l \in ledgers : l.id = lastRead.query.ledgerId
                         /\ l.tenantId = lastRead.query.tenantId)
  =>
    /\ lastRead.outcome.kind = "ok"
    /\ lastRead.outcome.totalDebitsMinor = lastRead.outcome.totalCreditsMinor

\* A trial balance with non-zero totals was answered while an open posting
\* held an uncommitted balance change on an account of the same ledger.
C7_Witness ==
  /\ lastRead.op = "getTrialBalance"
  /\ lastRead.outcome.kind = "ok"
  /\ lastRead.outcome.totalDebitsMinor > 0
  /\ \E a \in AccountIds :
       /\ accounts[a].ledgerId = lastRead.query.ledgerId
       /\ rowLock[a] # NoProc
       /\ dirty[a].balanceMinor # accounts[a].balanceMinor

\* ------------------------------------------------------------- C8

\* The tables without the rows of every tenant but tenantId.
ownRows(db, tenantId) ==
  [ledgers |-> {l \in db.ledgers : l.tenantId = tenantId},
   transactions |-> {t \in db.transactions : t.tenantId = tenantId},
   entries |-> {e \in db.entries : e.tenantId = tenantId},
   accounts |-> [a \in {b \in DOMAIN db.accounts : db.accounts[b].tenantId = tenantId}
                   |-> db.accounts[a]]]

\* The answer of the read op to query over the tables db.
answerOver(op, query, db) ==
  CASE op = "listAccounts" -> listAccounts(db, query)
    [] op = "listTransactions" -> listTransactions(db, query)
    [] op = "listEntries" -> listEntries(db, query)
    [] op = "getLedgerById" -> getLedgerById(db, query.tenantId, query.ledgerId)
    [] op = "findLedgersByTenant" -> findLedgersByTenant(db, query.tenantId)
    [] op = "getTrialBalance" -> getTrialBalance(db, query)

\* The tenants owning the rows an answer returns.
ownersOf(op, outcome) ==
  IF outcome.kind # "ok" THEN {}
  ELSE CASE op \in {"listAccounts", "listTransactions", "findLedgersByTenant"} ->
              {outcome.data[i].tenantId : i \in 1..Len(outcome.data)}
         [] op = "listEntries" ->
              {e.tenantId : e \in {r \in entries :
                                     \E i \in 1..Len(outcome.data) : outcome.data[i].id = r.id}}
         [] op = "getLedgerById" -> {outcome.ledger.tenantId}
         [] op = "getTrialBalance" ->
              {l.tenantId : l \in {r \in ledgers : r.id = outcome.ledgerId}}
              \cup {accounts[outcome.accounts[i].accountId].tenantId :
                      i \in 1..Len(outcome.accounts)}

namesNoMatchingAccount(in) ==
  \E i \in 1..Len(in.entries) :
    LET a == in.entries[i].accountId IN
    \/ a \notin AccountIds
    \/ InitAccounts[a].tenantId # in.tenantId
    \/ InitAccounts[a].ledgerId # in.ledgerId
    \/ InitAccounts[a].currency # in.currency

RECURSIVE updatesBeforeMismatch(_, _)
\* The entries of es, in order, up to the first one whose account is not an
\* account of the posting's tenant, ledger and currency.
updatesBeforeMismatch(es, in) ==
  IF es = << >> THEN << >>
  ELSE LET a == Head(es).accountId IN
       IF /\ a \in AccountIds
          /\ InitAccounts[a].tenantId = in.tenantId
          /\ InitAccounts[a].ledgerId = in.ledgerId
          /\ InitAccounts[a].currency = in.currency
         THEN <<Head(es)>> \o updatesBeforeMismatch(Tail(es), in)
         ELSE << >>

\* C11 as stated: whenever an entry names an account that does not exist with
\* the posting's tenantId, ledgerId and currency, the call fails with
\* INVARIANT_VIOLATION and leaves the tables as they were.
C11_MismatchAlwaysInvariantViolation ==
  (pc[1] = "done" /\ namesNoMatchingAccount(input[1])) =>
    /\ result[1].kind = "INVARIANT_VIOLATION"
    /\ committed = snap[1]

\* C11 amended: such a posting never changes a table.  With a balanced payload
\* and a (tenantId, reference) already committed it returns created=false;
\* otherwise it fails, with INVARIANT_VIOLATION unless a balance update applied
\* before the mismatching one leaves the bigint range (REPOSITORY_ERROR).
C11_MismatchNeverPosts ==
  (pc[1] = "done" /\ namesNoMatchingAccount(input[1])) =>
    LET in == input[1]
        before == findByReference(snap[1].transactions, in.tenantId, in.reference)
        applied == updatesBeforeMismatch(sortByAccountId(in.entries), in)
    IN /\ committed = snap[1]
       /\ IF before # {} /\ assertBalancedEntries(in.entries) = "ok"
            THEN result[1].kind = "ok" /\ ~result[1].created
            ELSE \/ result[1].kind = "INVARIANT_VIOLATION"
                 \/ /\ result[1].kind = "REPOSITORY_ERROR"
                    /\ ~fitsFrom(applied, [a \in AccountIds |->
                                             snap[1].accounts[a].balanceMinor])

\* A posting of tA that credits an account of tB failed with the mismatch
\* error after the update of its first account had been applied.
C11_Witness ==
  /\ pc[1] = "done"
  /\ result[1].kind = "INVARIANT_VIOLATION"
  /\ result[1].message = "Unable to post transaction: account ledger/currency mismatch"
  /\ result[1].applied >= 1
  /\ input[1].tenantId = "tA"
  /\ \E i \in 1..Len(input[1].entries) :
       /\ input[1].entries[i].accountId \in AccountIds
       /\ InitAccounts[input[1].entries[i].accountId].tenantId = "tB"

\* ------------------------------------------------------------ C12

\* C12: a posting that reaches a balance update taking an account outside the
\* bigint range (fresh reference, balanced payload, existing ledger and
\* accounts, no unmatched account before the overflowing update) fails with
\* REPOSITORY_ERROR and leaves transactions, entries and every balance as they
\* were, the accounts updated before the overflowing one included.
C12_OverflowIsRepositoryError ==
  LET in == input[1]
      applied == updatesBeforeMismatch(sortByAccountId(in.entries), in)
  IN (/\ pc[1] = "done"
      /\ findByReference(snap[1].transactions, in.tenantId, in.reference) = {}
      /\ Len(in.entries) >= 2
      /\ SumOf(in.entries, "DEBIT") = SumOf(in.entries, "CREDIT")
      /\ in.ledgerId \in {l.id : l \in ledgers}
      /\ \A i \in 1..Len(in.entries) : in.entries[i].accountId \in AccountIds
      /\ ~fitsFrom(applied, [a \in AccountIds |-> snap[1].accounts[a].balanceMinor]))
     =>
       /\ result[1].kind = "REPOSITORY_ERROR"
       /\ result[1].message = "Unable to post transaction"
       /\ committed = snap[1]
       /\ \A a \in AccountIds : rowLock[a] = NoProc

\* A posting failed on the overflow of its second account after the update of
\* its first account had been applied.
C12_Witness ==
  /\ pc[1] = "done"
  /\ result[1].kind = "REPOSITORY_ERROR"
  /\ result[1].applied >= 1
  /\ \E a \in AccountIds : accounts[a].balanceMinor # 0

\* ------------------------------------------------------------ C13

\* C13: every persisted entry has amountMinor > 0, and a posting with an entry
\* whose amountMinor is <= 0 is rejected with INVARIANT_VIOLATION, also when
\* its DEBIT and CREDIT sums are equal.
C13_AmountsPositive ==
  /\ \A e \in entries : e.amountMinor > 0
  /\ (/\ pc[1] = "done"
      /\ \E i \in 1..Len(input[1].entries) : input[1].entries[i].amountMinor <= 0)
     => result[1].kind = "INVARIANT_VIOLATION"

\* ------------------------------------------------------------ C14

\* C14: every persisted entry has the currency of its transaction, every
\* account a persisted entry references has the transaction's currency and
\* ledgerId, and a posting with an entry whose currency differs from the
\* transaction currency is rejected with INVARIANT_VIOLATION.
C14_CurrenciesAndLedgersAgree ==
  /\ \A e \in entries : \A t \in transactions :
       e.transactionId = t.id =>
         /\ e.currency = t.currency
         /\ accounts[e.accountId].currency = t.currency
         /\ accounts[e.accountId].ledgerId = t.ledgerId
  /\ (/\ pc[1] = "done"
      /\ \E i \in 1..Len(input[1].entries) :
           input[1].entries[i].currency # input[1].currency)
     => result[1].kind = "INVARIANT_VIOLATION"

\* ------------------------------------------------------------ C15

Listings == {"listAccounts", "listTransactions", "listEntries"}

RECURSIVE traverse(_, _, _, _, _, _)
\* A client's traversal of a listing: the pages from cursor on, each requested
\* with the nextCursor of the one before, at most fuel of them; complete when
\* the last page requested had no nextCursor.
traverse(op, db, tenantId, limit, cursor, fuel) ==
  IF fuel = 0 THEN [data |-> << >>, complete |-> FALSE]
  ELSE LET page == answerOver(op, [tenantId |-> tenantId, limit |-> limit,
                                   cursor |-> cursor], db)
       IN IF page.nextCursor = NoCursor THEN [data |-> page.data, complete |-> TRUE]
          ELSE LET rest == traverse(op, db, tenantId, limit, page.nextCursor, fuel - 1)
               IN [data |-> page.data \o rest.data, complete |-> rest.complete]

\* The rows of the table a listing reads.
tableOf(op, db) ==
  CASE op = "listAccounts" -> accountRows(db.accounts)
    [] op = "listTransactions" -> db.transactions
    [] op = "listEntries" -> db.entries

\* The ids of the tenant's rows of a table in (createdAt, id) order.
orderedIds(rows, tenantId) ==
  LET ordered == orderByCreatedAtId({r \in rows : r.tenantId = tenantId})
  IN [i \in 1..Len(ordered) |-> ordered[i].id]

\* C15: for the committed data, any tenant and any limit, the pages from no
\* cursor on, each requested with the nextCursor of the one before until it is
\* null, end, and their concatenation is the tenant's rows in (createdAt, id)
\* order, every row once.
C15_TraversalYieldsEveryRowOnce ==
  \A op \in Listings : \A tenantId \in Tenants : \A limit \in Limits :
    LET ids == orderedIds(tableOf(op, committed), tenantId)
        walk == traverse(op, committed, tenantId, limit, NoCursor, Len(ids) + 1)
    IN /\ walk.complete
       /\ [i \in 1..Len(walk.data) |-> walk.data[i].id] = ids

\* ------------------------------------------------------------ C16

\* The committed rows of the tenant that a listing query asks for: all of them
\* without a cursor, else those after the cursor's (created_at, id).
matchingRows(op, query) ==
  {r \in tableOf(op, committed) :
     /\ r.tenantId = query.tenantId
     /\ query.cursor # NoCursor =>
          \/ r.createdAt > toTimestamp(query.cursor[1].created_at.value)
          \/ /\ r.createdAt = toTimestamp(query.cursor[1].created_at.value)
             /\ r.id > query.cursor[1].id.value}

\* C16: a listing that answers returns at most limit rows, the first of the
\* matching rows in order; nextCursor is non-null exactly when a further
\* matching row exists after the page, and then it encodes the (createdAt, id)
\* of the last returned row.
C16_PageAndNextCursor ==
  (lastRead.op \in Listings /\ lastRead.outcome.kind = "ok") =>
    LET data == lastRead.outcome.data
        nextCursor == lastRead.outcome.nextCursor
        matching == orderByCreatedAtId(matchingRows(lastRead.op, lastRead.query))
    IN /\ Len(data) <= lastRead.query.limit
       /\ Len(data) <= Len(matching)
       /\ \A i \in 1..Len(data) : data[i].id = matching[i].id
       /\ nextCursor # NoCursor <=> Len(matching) > Len(data)
       /\ nextCursor # NoCursor =>
            /\ data # << >>
            /\ nextCursor[1].json = "object"
            /\ nextCursor[1].created_at = JsonField("string", data[Len(data)].createdAt)
            /\ nextCursor[1].id = JsonField("string", data[Len(data)].id)

\* A page requested with a cursor was full and a further row followed it.
C16_Witness ==
  /\ lastRead.op \in Listings
  /\ lastRead.query.cursor # NoCursor
  /\ lastRead.outcome.kind = "ok"
  /\ Len(lastRead.outcome.data) = lastRead.query.limit
  /\ lastRead.outcome.nextCursor # NoCursor

\* ------------------------------------------------------------ C17

\* The cursor text is the encoding of a JSON object with string fields
\* created_at, a date, and id.
holdsCursorValue(text) ==
  /\ text.json = "object"
  /\ text.created_at.type = "string"
  /\ text.created_at.value # NaN
  /\ text.id.type = "string"

C18_TrialBalanceContent ==
  (/\ lastRead.op = "getTrialBalance"
   /\ \E l \in ledgers : l.id = lastRead.query.ledgerId
                         /\ l.tenantId = lastRead.query.tenantId)
  =>
    LET db == committed.accounts
        ids == orderedIds({r \in accountRows(db) : r.ledgerId = lastRead.query.ledgerId},
                          lastRead.query.tenantId)
        items == lastRead.outcome.accounts
        reported(side) == [i \in 1..Len(items) |->
                             IF items[i].normalBalance = side
                               THEN items[i].balanceMinor ELSE 0]
    IN /\ lastRead.outcome.kind = "ok"
       /\ [i \in 1..Len(items) |-> items[i].accountId] = ids
       /\ \A i \in 1..Len(items) :
            LET balance == db[items[i].accountId].balanceMinor IN
            /\ balance <= 0 => items[i].normalBalance = "DEBIT"
                               /\ items[i].balanceMinor = -balance
            /\ balance > 0 => items[i].normalBalance = "CREDIT"
                              /\ items[i].balanceMinor = balance
       /\ lastRead.outcome.totalDebitsMinor = SumSet(1..Len(items), reported("DEBIT"))
       /\ lastRead.outcome.totalCreditsMinor = SumSet(1..Len(items), reported("CREDIT"))

\* A trial balance listed an account created later after one created earlier
\* with a smaller id, and held a zero balance, a negative and a positive one.
C18_Witness ==
  /\ lastRead.op = "getTrialBalance"
  /\ lastRead.outcome.kind = "ok"
  /\ \E i, j \in 1..Len(lastRead.outcome.accounts) :
       /\ i < j
       /\ lastRead.outcome.accounts[i].accountId > lastRead.outcome.accounts[j].accountId
  /\ \E a, b, c \in AccountIds :
       /\ {accounts[a].ledgerId, accounts[b].ledgerId, accounts[c].ledgerId}
            = {lastRead.query.ledgerId}
       /\ accounts[a].balanceMinor < 0
       /\ accounts[b].balanceMinor > 0
       /\ accounts[c].balanceMinor = 0

\* ------------------------------------------------------------ C19

\* The stored keys that are not revoked and whose hash is the SHA-256 of the
\* raw key without the whitespace around it.
activeKeysFor(rawApiKey) ==
  {k \in apiKeys :
     /\ k.keyHash = [sha256 |-> Text(rawApiKey.text, FALSE, FALSE)]
     /\ k.revokedAt = << >>}

\* C19: authenticate(rawKey) returns an AuthContext exactly when a stored key
\* whose hash is the SHA-256 of the trimmed rawKey exists with revokedAt null,
\* and the context carries that key's id, tenantId and role; a raw key that is
\* empty after trimming, unknown or revoked yields UNAUTHORIZED.
C19_AuthenticateActiveKeysOnly ==
  lastKey.op = "authenticate" =>
    LET rawApiKey == lastKey.input[1]
        active == activeKeysFor(rawApiKey)
    IN /\ active # {} =>
            /\ lastKey.outcome.kind = "ok"
            /\ \E k \in active :
                 lastKey.outcome.context =
                   [apiKeyId |-> k.id, tenantId |-> k.tenantId, role |-> k.role]
       /\ active = {} => lastKey.outcome.kind = "UNAUTHORIZED"
       /\ rawApiKey.text = "" => lastKey.outcome.kind = "UNAUTHORIZED"

\* A raw key sent with whitespace around it authenticated as the SERVICE key it
\* names, while another key of the store was revoked.
C19_Witness ==
  /\ lastKey.op = "authenticate"
  /\ lastKey.input[1].leading
  /\ lastKey.outcome.kind = "ok"
  /\ lastKey.outcome.context.role = "SERVICE"
  /\ \E k \in apiKeys : k.revokedAt # << >>

\* ------------------------------------------------------------ C20

\* The raw key names a revoked key: the key's hash is the hash of the raw key,
\* as sent or trimmed.
namesRevokedKey(rawApiKey) ==
  \E k \in apiKeys :
    /\ k.revokedAt # << >>
    /\ k.keyHash \in {[sha256 |-> rawApiKey],
                      [sha256 |-> Text(rawApiKey.text, FALSE, FALSE)]}

\* C20: revocation is permanent: no step changes the row of a revoked key, and
\* every authenticate with the raw key of a revoked key fails with
\* UNAUTHORIZED.
C20_RevocationPermanent ==
  /\ [][\A k \in apiKeys : k.revokedAt # << >> => k \in apiKeys']_vars
  /\ []((lastKey.op = "authenticate" /\ namesRevokedKey(lastKey.input[1]))
          => lastKey.outcome.kind = "UNAUTHORIZED")

\* A generated key was created and revoked, and an authenticate with its raw
\* key was then refused.
C20_Witness ==
  /\ lastKey.op = "authenticate"
  /\ lastKey.input[1] \in GeneratedKeys
  /\ namesRevokedKey(lastKey.input[1])
  /\ lastKey.outcome.kind = "UNAUTHORIZED"

\* ------------------------------------------------------------ C21

ManagementCalls == {"createApiKey", "listApiKeys", "revokeApiKey"}

\* C21: createApiKey, listApiKeys and revokeApiKey act only for an ADMIN actor
\* on the actor's own tenant: a non-ADMIN actor gets FORBIDDEN and
\* createApiKey for another tenant gets FORBIDDEN, the key store staying as it
\* is and nothing being listed; a created key belongs to its creator's tenant,
\* and only keys of the actor's tenant are revoked or listed.
C21_AdminOnOwnTenantOnly ==
  [][LET call == lastKey' IN
     call.op \in ManagementCalls =>
       LET actor == call.actor[1] IN
       /\ actor.role # "ADMIN" =>
            /\ call.outcome.kind = "FORBIDDEN"
            /\ apiKeys' = apiKeys
       /\ (call.op = "createApiKey" /\ call.input[1].tenantId # actor.tenantId) =>
            /\ call.outcome.kind = "FORBIDDEN"
            /\ apiKeys' = apiKeys
       /\ \A k \in apiKeys' \ apiKeys : k.tenantId = actor.tenantId
       /\ \A k \in apiKeys \ apiKeys' : k.tenantId = actor.tenantId
       /\ (call.op = "listApiKeys" /\ call.outcome.kind = "ok") =>
            \A i \in 1..Len(call.outcome.data) :
              call.outcome.data[i].tenantId = actor.tenantId
    ]_vars

\* An ADMIN asked for a key of a tenant that exists and is not the ADMIN's own,
\* and was refused.
C21_Witness ==
  /\ lastKey.op = "createApiKey"
  /\ lastKey.actor[1].role = "ADMIN"
  /\ lastKey.input[1].tenantId \in tenants \ {lastKey.actor[1].tenantId}
  /\ lastKey.input[1].role \in ApiKeyRoles
  /\ lastKey.outcome.kind = "FORBIDDEN"

\* ------------------------------------------------------------ C22

\* The path a request asks for lies under these segments.
pathUnder(request, prefix) ==
  /\ Len(request.url) > Len(prefix)
  /\ \A i \in 1..Len(prefix) : request.url[i].text = prefix[i]

\* The stored keys a request's credential names when it is answered.
keysNamedBy(request) ==
  IF request.credential = << >> THEN {}
  ELSE {k \in apiKeys :
          k.keyHash = [sha256 |-> Text(request.credential[1].value.text, FALSE, FALSE)]}

\* C22: a request to a path under /v1/admin/ made with an active SERVICE key
\* is answered 403 without reaching the route handler, and a request to a
\* /v1/ path made with a revoked key is answered 401, a revoked ADMIN key on
\* an admin path included.
C22_AdminGateAfterAuthentication ==
  [][lastHttp' # lastHttp =>
       LET request == lastHttp'.request[1] IN
       /\ ( /\ pathUnder(request, <<"v1", "admin">>)
            /\ \E k \in keysNamedBy(request) : k.revokedAt = << >> /\ k.role = "SERVICE" )
          => lastHttp'.status = 403 /\ lastHttp'.handler = "none"
       /\ ( /\ pathUnder(request, <<"v1">>)
            /\ \E k \in keysNamedBy(request) : k.revokedAt # << >> )
          => lastHttp'.status = 401
    ]_vars

\* ------------------------------------------------------------ C23

\* C23: a request to a /v1/ path reaches a route handler only after
\* authenticate succeeded, and the handler passes on the tenantId of the
\* authenticated key; a /v1/ request without a credential is answered 401;
\* /health and /ready are served without a credential.
C23_HandlersBehindAuthentication ==
  [][lastHttp' # lastHttp =>
       LET request == lastHttp'.request[1] IN
       /\ (pathUnder(request, <<"v1">>) /\ lastHttp'.handler # "none")
          => /\ lastHttp'.authenticated
             /\ \E k \in keysNamedBy(request) :
                  k.revokedAt = << >> /\ lastHttp'.tenantId = <<k.tenantId>>
       /\ (pathUnder(request, <<"v1">>) /\ request.credential = << >>)
          => lastHttp'.status = 401
       /\ ( /\ request.url \in {<<Segment("health", FALSE)>>, <<Segment("ready", FALSE)>>}
            /\ request.credential = << >> )
          => lastHttp'.handler = request.url[1].text /\ lastHttp'.status \in {200, 503}
    ]_vars

\* ------------------------------------------------------------ C24

\* C24: revokeApiKey(actor, id) by an ADMIN sets revokedAt only when the key
\* exists, belongs to actor.tenantId and is active; for an unknown id, a key
\* of another tenant or an already revoked key it fails with
\* INVARIANT_VIOLATION ('API key not found') and leaves the revokedAt of every
\* key unchanged.
C24_RevokeOwnActiveKeyOnly ==
  [][(lastKey'.op = "revokeApiKey" /\ lastKey'.actor[1].role = "ADMIN") =>
       LET actor == lastKey'.actor[1]
           target == {k \in apiKeys : /\ k.id = lastKey'.input[1]
                                      /\ k.tenantId = actor.tenantId
                                      /\ k.revokedAt = << >>}
       IN IF target # {}
            THEN /\ lastKey'.outcome.kind = "ok"
                 /\ apiKeys' = (apiKeys \ target)
                                 \cup {[k EXCEPT !.revokedAt = <<clock'>>] : k \in target}
            ELSE /\ lastKey'.outcome = [kind |-> "INVARIANT_VIOLATION",
                                        message |-> "API key not found"]
                 /\ \A k \in apiKeys : \E after \in apiKeys' :
                      after.id = k.id /\ after.revokedAt = k.revokedAt
                 /\ Cardinality(apiKeys') = Cardinality(apiKeys)
    ]_vars

\* An ADMIN was refused the revocation of an active key of another tenant.
C24_Witness ==
  /\ lastKey.op = "revokeApiKey"
  /\ lastKey.actor[1].role = "ADMIN"
  /\ lastKey.outcome.kind = "INVARIANT_VIOLATION"
  /\ \E k \in apiKeys : /\ k.id = lastKey.input[1]
                        /\ k.tenantId # lastKey.actor[1].tenantId
                        /\ k.revokedAt = << >>
  /\ \E k \in apiKeys : k.revokedAt # << >>

\* ------------------------------------------------------------ C25

\* C25: bootstrapInitialAdmin, called with a tenant name, a key name and a raw
\* key that are not empty, creates one tenant and one ADMIN key and returns
\* created = true only when the key store holds no key at all; whenever a key
\* exists, active or revoked, it returns {created: false} and changes nothing.
\* A store that holds a key never becomes empty again, so that sequential
\* bootstrap calls create at most one tenant and one key.
C25_BootstrapOnEmptyStoreOnly ==
  [][/\ apiKeys # {} => apiKeys' # {}
     /\ lastKey'.op = "bootstrapInitialAdmin" =>
          LET in == lastKey'.input[1]
              out == lastKey'.outcome
              given == in.tenantName.text # "" /\ in.keyName.text # "" /\ in.rawApiKey.text # ""
          IN IF ~given
               THEN out.kind = "INVARIANT_VIOLATION" /\ tenants' = tenants /\ apiKeys' = apiKeys
             ELSE IF apiKeys = {}
               THEN /\ out.kind = "ok" /\ out.created
                    /\ Cardinality(tenants' \ tenants) = 1
                    /\ \E k \in apiKeys' :
                         /\ apiKeys' = {k}
                         /\ k.role = "ADMIN" /\ k.revokedAt = << >>
                         /\ tenants' \ tenants = {k.tenantId}
                         /\ out.tenantId = <<k.tenantId>> /\ out.apiKeyId = <<k.id>>
             ELSE /\ out.kind = "ok" /\ ~out.created
                  /\ out.tenantId = << >> /\ out.apiKeyId = << >>
                  /\ tenants' = tenants /\ apiKeys' = apiKeys
    ]_vars

\* A bootstrap call found a store whose only key is revoked and created
\* nothing.
C25_Witness ==
  /\ lastKey.op = "bootstrapInitialAdmin"
  /\ lastKey.outcome.kind = "ok"
  /\ ~lastKey.outcome.created
  /\ Cardinality(apiKeys) = 1
  /\ \A k \in apiKeys : k.revokedAt # << >> /\ k.tenantId = BootstrapTenant

\* ------------------------------------------------------------ C26

\* C26: every repository operation on ledgers, accounts, transactions or
\* entries runs in a transaction whose first statement binds app.tenant_id to
\* the tenantId of the operation, and the binding is local to the transaction:
\* every statement after the first sees the tenant of its own operation, and a
\* connection no transaction holds carries no binding for the operation that
\* takes it next.
C26_TenantBindingLocalToTransaction ==
  \A c \in Connections :
    LET conn == pool[c] IN
    /\ conn.op = << >> => current_setting(conn.settings) = << >>
    /\ (conn.op # << >> /\ conn.statements = 0) =>
         conn.observed = << >> /\ current_setting(conn.settings) = << >>
    /\ (conn.op # << >> /\ conn.statements >= 1) =>
         /\ current_setting(conn.settings) = <<conn.op[1].tenantId>>
         /\ conn.observed \in {<< >>, <<conn.op[1].tenantId>>}
         /\ conn.statements >= 2 => conn.observed = <<conn.op[1].tenantId>>

\* A transaction of tB runs its statements on a connection while a
\* transaction of tA, bound, holds the other.
C26_Witness ==
  \E c, d \in Connections :
    /\ pool[c].op # << >> /\ pool[c].op[1].tenantId = "tB"
    /\ pool[c].op[1].name = "postTransaction"
    /\ pool[c].observed = <<"tB">>
    /\ pool[d].op # << >> /\ pool[d].op[1].tenantId = "tA"
    /\ pool[d].statements >= 1

\* ------------------------------------------------------------ C27

\* The rows of a table with one field left out of the comparison.
without(rows, field) ==
  {[f \in DOMAIN r \ {field} |-> r[f]] : r \in rows}

\* C27: no step deletes a tenant, ledger, account, transaction, entry or API
\* key; after creation a ledger changes in updatedAt only, an API key in
\* revokedAt only, an account in balanceMinor and updatedAt only, and only at
\* the commit of a created = true posting whose entries name it; a persisted
\* transaction and its set of entries never change.
C27_NothingDeletedFewFieldsChange ==
  [][/\ tenants \subseteq tenants'
     /\ without(ledgers, "updatedAt") \subseteq without(ledgers', "updatedAt")
     /\ \A l \in ledgers : Cardinality({m \in ledgers' : m.id = l.id}) = 1
     /\ \A k \in apiKeys : \E after \in apiKeys' :
          /\ [after EXCEPT !.revokedAt = << >>] = [k EXCEPT !.revokedAt = << >>]
          /\ Cardinality({j \in apiKeys' : j.id = k.id}) = 1
     /\ transactions \subseteq transactions'
     /\ entries \subseteq entries'
     /\ \A t \in transactions :
          {e \in entries' : e.transactionId = t.id} = {e \in entries : e.transactionId = t.id}
     /\ DOMAIN accounts \subseteq DOMAIN accounts'
     /\ \A a \in DOMAIN accounts :
          /\ [accounts'[a] EXCEPT !.balanceMinor = 0, !.updatedAt = 0]
               = [accounts[a] EXCEPT !.balanceMinor = 0, !.updatedAt = 0]
          /\ accounts'[a] # accounts[a] =>
               \E p \in Procs :
                 /\ pc[p] = "commit" /\ pc'[p] = "done"
                 /\ result'[p].kind = "ok" /\ result'[p].created
                 /\ \E i \in 1..Len(input[p].entries) : input[p].entries[i].accountId = a
    ]_vars

\* A posting was committed and moved balances, another was rolled back after
\* its first update, and a key is revoked.
C27_Witness ==
  /\ \E a \in DOMAIN accounts : accounts[a].balanceMinor # 0
  /\ \E p \in Procs : result[p].kind = "INVARIANT_VIOLATION" /\ result[p].applied >= 1
  /\ \E k \in apiKeys : k.revokedAt # << >>
  /\ transactions # {}

\* ------------------------------------------------------------ C28

\* The constraint class of a SQLSTATE code, for the codes of the known
\* classes; range is the length of a string (string_data_right_truncation).
ConstraintClass ==
  [c \in {"23503", "23505", "23514", "23502", "22P02", "22007", "22001"} |->
     CASE c = "23503" -> "foreign-key"
       [] c = "23505" -> "unique"
       [] c = "23514" -> "check"
       [] c = "23502" -> "not-null"
       [] c \in {"22P02", "22007"} -> "type-conversion"
       [] c = "22001" -> "range"]

\* The codes an error carries, its own or of a cause.
RECURSIVE codesIn(_)
codesIn(error) ==
  (IF error.code # "" THEN {error.code} ELSE {})
  \cup (IF "cause" \in DOMAIN error THEN codesIn(error.cause) ELSE {})

C29_CancelledPostingRolledBack ==
  /\ \A t \in transactions : t.createdAt \notin cancelled
  /\ \A e \in entries : e.createdAt \notin cancelled

\* ------------------------------------------------------------ C30

\* The sum of the amounts of the postings of a direction, as integers.
postingsTotal(postings, direction) ==
  SumSet({i \in 1..Len(postings) : postings[i].direction = direction},
         [i \in 1..Len(postings) |-> postings[i].amount])

\* A posting passes the checks of the claim.
soundPosting(tx, given, posting) ==
  /\ posting.direction \in {"DEBIT", "CREDIT"}
  /\ posting.amount > 0
  /\ posting.currency = tx.currency
  /\ \E i \in 1..Len(given) :
       /\ given[i].id = posting.accountId
       /\ given[i].currency = tx.currency
       /\ given[i].ledgerId = tx.ledgerId

\* C30: createTransaction(input, accounts) returns the transaction exactly
\* when it has at least 2 postings, every posting has direction DEBIT or
\* CREDIT, amount > 0, the currency of the transaction and an account present
\* in accounts with the currency and ledgerId of the transaction, and the
\* DEBIT total equals the CREDIT total; otherwise it throws
\* InvariantViolationError with the message of the first failing check:
\* postings are checked in order, a zero amount is reported as 'no zero
\* entries', the totals are checked last.
C30_CreateTransactionExactlyWhenSound ==
  lastRead.op = "createTransaction" =>
    LET tx == lastRead.query[1]
        given == lastRead.query[2]
        unsound == {i \in 1..Len(tx.postings) : ~soundPosting(tx, given, tx.postings[i])}
        balanced == postingsTotal(tx.postings, "DEBIT") = postingsTotal(tx.postings, "CREDIT")
        first == CHOOSE i \in unsound : \A j \in unsound : i <= j
    IN IF Len(tx.postings) < 2
         THEN lastRead.outcome = [kind |-> "INVARIANT_VIOLATION",
                                  message |-> "transaction must have at least 2 entries"]
       ELSE IF unsound # {}
         THEN /\ lastRead.outcome.kind = "INVARIANT_VIOLATION"
              /\ lastRead.outcome.message # "total debits must equal total credits"
              /\ tx.postings[first].direction \notin {"DEBIT", "CREDIT"}
                   => lastRead.outcome.message = "posting direction must be DEBIT or CREDIT"
              /\ (tx.postings[first].direction \in {"DEBIT", "CREDIT"}
                    /\ tx.postings[first].amount = 0)
                   => lastRead.outcome.message = "no zero entries"
              /\ (tx.postings[first].direction \in {"DEBIT", "CREDIT"}
                    /\ tx.postings[first].amount < 0)
                   => lastRead.outcome.message = "amount must be greater than 0"
       ELSE IF ~balanced
         THEN lastRead.outcome = [kind |-> "INVARIANT_VIOLATION",
                                  message |-> "total debits must equal total credits"]
       ELSE /\ lastRead.outcome.kind = "ok"
            /\ lastRead.outcome.transaction = tx

\* ------------------------------------------------------------- C31

\* The entry list has fewer than 2 entries or unequal DEBIT and CREDIT sums.
unbalanced(es) == Len(es) < 2 \/ SumOf(es, "DEBIT") # SumOf(es, "CREDIT")

\* C31: the balance pre-validation runs before any database statement.  The
\* step that calls postTransaction with fewer than 2 entries or unequal DEBIT
\* and CREDIT sums is the step that answers it: the call has failed with
\* INVARIANT_VIOLATION, no database transaction was opened (the handler holds
\* no uncommitted work and never reaches a statement) and the tables are
\* untouched, also when a committed transaction has its (tenantId, reference).
C31_PreValidationBeforeAnyStatement ==
  [][(clock' # clock /\ unbalanced(input'[1].entries)) =>
       /\ pc'[1] = "done"
       /\ result'[1].kind = "INVARIANT_VIOLATION"
       /\ ~result'[1].created
       /\ result'[1].transactionId = NoId
       /\ work'[1] = NoWork
       /\ committed' = committed
       /\ nextId' = nextId]_vars

\* A posting of two entries with unequal sums, whose (tenantId, reference) a
\* committed transaction has, failed with INVARIANT_VIOLATION.
C31_Witness ==
  /\ pc[1] = "done"
  /\ Len(input[1].entries) >= 2
  /\ unbalanced(input[1].entries)
  /\ findByReference(transactions, input[1].tenantId, input[1].reference) # {}
  /\ result[1].kind = "INVARIANT_VIOLATION"

\* ------------------------------------------------------------- C32

\* The rows of the transactions table tbl that have the key of the input in.
originalOf(in, tbl) == findByReference(tbl, in.tenantId, in.reference)

\* C32: a call with a balanced payload whose (tenantId, reference) was already
\* committed returns created=false with the id of the committed transaction
\* and leaves every transaction, entry and account as it was, whatever its
\* ledgerId, currency, entries and accounts are: the payload of a retry is
\* neither compared with the original posting nor matched against the accounts.
C32_RetryIgnoresPayload ==
  (/\ pc[1] = "done"
   /\ ~unbalanced(input[1].entries)
   /\ originalOf(input[1], snap[1].transactions) # {})
  =>
    /\ result[1] = returned((CHOOSE t \in originalOf(input[1], snap[1].transactions) : TRUE).id,
                            FALSE)
    /\ transactions = snap[1].transactions
    /\ entries = snap[1].entries
    /\ accounts = snap[1].accounts
    /\ \A a \in AccountIds : rowLock[a] = NoProc

\* A retry naming a ledger that does not exist, with other entries than the
\* committed transaction and an entry on an account that does not exist,
\* returned created=false.
C32_Witness ==
  /\ pc[1] = "done"
  /\ result[1].kind = "ok" /\ ~result[1].created
  /\ \E t \in transactions :
       /\ t.id = result[1].transactionId
       /\ t.ledgerId # input[1].ledgerId
       /\ input[1].ledgerId \notin {l.id : l \in ledgers}
       /\ entryRows(input[1], t.id, t.createdAt) # entriesOf(entries, t.id)
  /\ \E i \in 1..Len(input[1].entries) : input[1].entries[i].accountId \notin AccountIds

\* ------------------------------------------------------------- C33

\* The posting is one the accounts table tbl accepts: balanced, on accounts of
\* its tenant, ledger and currency, with every balance staying in range.
validPosting(in, tbl) ==
  /\ ~unbalanced(in.entries)
  /\ accountsMatch(in)
  /\ fits(in, tbl)

\* C33: a failed posting does not consume its reference.  When the first
\* caller's posting with (tenantId, r) has failed, at whichever step, and the
\* second caller then posts a valid posting with the same (tenantId, r), the
\* second call returns created=true and its transaction row, its entry rows and
\* its balance changes are persisted.
C33_FailedPostingFreesReference ==
  (/\ pc[1] = "done" /\ result[1].kind # "ok"
   /\ pc[2] = "done"
   /\ keyOf(input[2]) = keyOf(input[1])
   /\ validPosting(input[2], snap[2].accounts))
  =>
    /\ result[2].kind = "ok" /\ result[2].created
    /\ \E t \in transactions :
         /\ t.id = result[2].transactionId
         /\ originalOf(input[2], transactions) = {t}
         /\ t.ledgerId = input[2].ledgerId /\ t.currency = input[2].currency
         /\ entriesOf(entries, t.id) = entryRows(input[2], t.id, t.createdAt)
         /\ \A a \in AccountIds :
              accounts[a].balanceMinor =
                snap[2].accounts[a].balanceMinor
                  + contributions({e \in entriesOf(entries, t.id) : e.accountId = a})

\* The first posting failed at its second balance update, after its transaction
\* row, its entries and one balance update had been written; the second
\* posting, with the same (tenantId, reference), was created.
C33_Witness ==
  /\ pc[1] = "done" /\ result[1].kind = "INVARIANT_VIOLATION" /\ result[1].applied >= 1
  /\ pc[2] = "done" /\ result[2].created
  /\ keyOf(input[2]) = keyOf(input[1])
  /\ \E a \in AccountIds : accounts[a].balanceMinor # 0

\* ------------------------------------------------------------- C34

\* The rows of tenant tenantId in the committed tables.
rowsOfTenant(tenantId, txs, ents, accts) ==
  [transactions |-> tenantRows(txs, tenantId),
   entries |-> tenantRows(ents, tenantId),
   accounts |-> tenantRows(accountRows(accts), tenantId)]

\* Handler p has committed its posting in this step.
committedNow(p) == pc[p] = "commit" /\ pc'[p] = "done"

\* C34: idempotency keys are scoped per tenant.  When two callers of different
\* tenants have posted valid postings with the same reference, both returned
\* created=true, with distinct transactionIds, and each tenant has its own
\* transaction row for the reference with its own entries; and a step changes
\* the transactions, entries or accounts of a tenant only when it commits a
\* posting of that tenant.
C34_ReferencesScopedPerTenant ==
  [][/\ \A p, q \in {1, 2} :
          (/\ pc'[p] = "done" /\ pc'[q] = "done"
           /\ input'[p].tenantId # input'[q].tenantId
           /\ input'[p].reference = input'[q].reference
           /\ validPosting(input'[p], snap'[p].accounts)
           /\ validPosting(input'[q], snap'[q].accounts))
          =>
            /\ result'[p].kind = "ok" /\ result'[p].created
            /\ result'[q].kind = "ok" /\ result'[q].created
            /\ result'[p].transactionId # result'[q].transactionId
            /\ \E t \in transactions' :
                 /\ t.id = result'[p].transactionId
                 /\ t.tenantId = input'[p].tenantId
                 /\ entriesOf(entries', t.id) = entryRows(input'[p], t.id, t.createdAt)
     /\ \A tenantId \in Tenants :
          rowsOfTenant(tenantId, transactions', entries', accounts')
            # rowsOfTenant(tenantId, transactions, entries, accounts)
          => \E p \in Procs : input[p].tenantId = tenantId /\ committedNow(p)]_vars

\* Callers of tA and tB have both created a transaction with reference r1.
C34_Witness ==
  /\ pc[1] = "done" /\ pc[2] = "done"
  /\ input[1].tenantId # input[2].tenantId
  /\ input[1].reference = input[2].reference
  /\ result[1].created /\ result[2].created
  /\ Cardinality(transactions) = 2

\* ------------------------------------------------------------- C35

\* C35: in every interleaving of concurrent postings, no call ends with
\* REPOSITORY_ERROR "Unable to resolve idempotent transaction": whenever the
\* conflict-ignoring insert of a handler has returned no row, a committed
\* transaction has the handler's (tenantId, reference), and the lookup that
\* follows returns its id.
C35_IdempotentLookupFindsRow ==
  \A p \in Procs :
    /\ result[p].message # "Unable to resolve idempotent transaction"
    /\ pc[p] = "selectExisting" =>
         originalOf(input[p], transactions) # {}
    /\ (pc[p] = "done" /\ result[p].kind = "ok" /\ ~result[p].created) =>
         \E t \in originalOf(input[p], transactions) : t.id = result[p].transactionId

\* The insert of a handler returned no row for a (tenantId, reference) that no
\* committed transaction had when the handler's call started: the row was
\* committed by a concurrent call in between.
C35_Witness ==
  \E p \in Procs :
    /\ pc[p] = "selectExisting"
    /\ originalOf(input[p], snap[p].transactions) = {}

\* ------------------------------------------------------------ C36

RECURSIVE traverseAcross(_, _, _, _, _, _, _, _)
\* A client's traversal of a listing while rows are inserted: the first switch
\* pages are answered over the tables before, the later pages over the tables
\* after; each page is requested with the nextCursor of the one before, at
\* most fuel pages in all.
traverseAcross(op, before, after, tenantId, limit, cursor, switch, fuel) ==
  IF fuel = 0 THEN << >>
  ELSE LET page == answerOver(op, [tenantId |-> tenantId, limit |-> limit,
                                   cursor |-> cursor],
                              IF switch > 0 THEN before ELSE after)
       IN IF page.nextCursor = NoCursor THEN page.data
          ELSE page.data \o traverseAcross(op, before, after, tenantId, limit,
                                           page.nextCursor,
                                           IF switch > 0 THEN switch - 1 ELSE 0, fuel - 1)

\* Pages a traversal of the model's tables may take.
MaxPages == 4

\* C36: a cursor traversal of a listing interleaved with concurrent inserts
\* returns no row on two pages, and the (createdAt, id) keys of the returned
\* rows increase strictly over the whole traversal.  The traversal starts on
\* the tables as they were when the posting of handler 1 started and goes on,
\* from any page on, over the tables as they are now.
C36_TraversalStrictlyIncreasing ==
  pc[1] # "idle" =>
    \A op \in Listings : \A tenantId \in Tenants : \A limit \in Limits :
      \A switch \in 0..MaxPages :
        LET data == traverseAcross(op, snap[1], committed, tenantId, limit, NoCursor,
                                   switch, MaxPages)
        IN \A i, j \in 1..Len(data) :
             i < j =>
               /\ data[i].id # data[j].id
               /\ \/ data[i].createdAt < data[j].createdAt
                  \/ data[i].createdAt = data[j].createdAt /\ data[i].id < data[j].id

\* ------------------------------------------------------------ C38

\* C38: once bootstrapInitialAdmin with raw key k has returned created=true,
\* authenticate(k) succeeds with role ADMIN and the tenant bootstrap created,
\* for every non-blank k, with or without whitespace around it.
C38_BootstrapKeyAuthenticates ==
  (/\ lastKey.op = "bootstrapInitialAdmin"
   /\ lastKey.outcome.kind = "ok"
   /\ lastKey.outcome.created)
  =>
    LET answer == authenticate(apiKeys, lastKey.input[1].rawApiKey) IN
    /\ answer.kind = "ok"
    /\ answer.context.role = "ADMIN"
    /\ <<answer.context.tenantId>> = lastKey.outcome.tenantId
    /\ <<answer.context.apiKeyId>> = lastKey.outcome.apiKeyId

\* ------------------------------------------------------------ C37

\* The ADMIN keys of the tenants that bootstrap created.
bootstrapAdminKeys == {k \in apiKeys : k.tenantId \notin Tenants /\ k.role = "ADMIN"}

\* C37: when two concurrent bootstrapInitialAdmin calls with non-blank inputs,
\* started on an empty key store, have both ended, at most one of them has
\* returned created=true, and exactly one tenant and exactly one ADMIN key
\* created by bootstrap exist.
C37_ConcurrentBootstrapCreatesOnce ==
  (/\ pc[1] = "done" /\ pc[2] = "done"
   /\ bootstrapError(input[1]) = << >>
   /\ bootstrapError(input[2]) = << >>)
  =>
    /\ ~(/\ result[1].kind = "ok" /\ result[1].created
         /\ result[2].kind = "ok" /\ result[2].created)
    /\ Cardinality(tenants \ Tenants) = 1
    /\ Cardinality(bootstrapAdminKeys) = 1

\* ------------------------------------------------------------ C39

\* The sum of balanceMinor over the accounts of a ledger in a currency.
ledgerTotal(tbl, ledgerId, currency) ==
  LET ids == {a \in DOMAIN tbl : tbl[a].ledgerId = ledgerId /\ tbl[a].currency = currency}
  IN SumSet(ids, [a \in ids |-> tbl[a].balanceMinor])

\* C39: in the committed tables, for every ledger and every currency, the
\* balances of the ledger's accounts in that currency sum to zero: the accounts
\* start at 0 and each committed posting applies deltas that sum to zero to
\* accounts of one ledger and one currency.
C39_LedgerCurrencySumsToZero ==
  \A ledgerId \in LedgerIds : \A currency \in Currencies :
    ledgerTotal(accounts, ledgerId, currency) = 0

\* A posting of three entries is committed: its two accounts hold balances
\* that differ from zero.
C39_Witness ==
  /\ \E t \in transactions : Cardinality(entriesOf(entries, t.id)) = 3
  /\ \E a, b \in AccountIds :
       /\ a # b
       /\ accounts[a].ledgerId = accounts[b].ledgerId
       /\ accounts[a].balanceMinor > 0
       /\ accounts[b].balanceMinor < 0

====
